---- MODULE Spec2Model ----
(***************************************************************************)
(* A model of the trust-buffer simulation: the bounded stores of           *)
(* simulation/bounded_list.py, the knowledge stores of                     *)
(* simulation/agent_buffers.py with the eviction strategies of             *)
(* simulation/eviction_strategy.py, and the discrete-event scheduler of    *)
(* simulation/simulator.py with the events of simulation/events.py and the *)
(* agent operations of simulation/agent.py.                                *)
(*                                                                         *)
(* Time is counted in integer ticks.  A Python exception is a string in    *)
(* the field exc of an operation's result ("none" when nothing is raised). *)
(***************************************************************************)
EXTENDS Integers, Sequences, FiniteSets, TLC

(***************************************************************************)
(* Bounds of the model.                                                    *)
(***************************************************************************)
NumAgents == 2
NumCapabilities == 2
MaxCapacity == 2
MaxOps == 3
MaxTime == 2
NumPeers == 2
Duration == 5
MaxPeriod == 2
MaxStartDelay == 2
MaxRunCapacity == 1

Agents == 1..NumAgents
Capabilities == 1..NumCapabilities

\* run_simulation.py: every agent has all capabilities
AgentCapabilities(agent) == Capabilities

\* run_simulation.py: Capability(f"C{n}", args.task_period, n), the priority
\* of a capability is its number, from 0
priority(capability) == capability - 1

Kinds == <<"crypto", "trust", "reputation", "stereotype", "cr">>
KindSet == {Kinds[i] : i \in 1..Len(Kinds)}

Strategies == {"None", "Random", "FIFO", "LRU", "LRU2", "MRU"}

(***************************************************************************)
(* simulation/bounded_list.py: a BoundedList is its maximum length, its    *)
(* contents and the frozen flag it inherits from FrozenList.  A length of  *)
(* 0 is falsy in Python, so both bound checks pass for it.                 *)
(***************************************************************************)
BoundedList(len) == [length |-> len, items |-> <<>>, frozen |-> FALSE]

check_item_bound_off_by_one(l) == l.length # 0 /\ Len(l.items) > l.length

\* TRUE when _check_item_bound raises BoundExceedError
check_item_bound(l) == l.length # 0 /\ Len(l.items) >= l.length

\* TRUE when _check_list_bound raises BoundExceedError
check_list_bound(l, values) == l.length # 0 /\ Len(l.items) + Len(values) > l.length

FrozenError == "RuntimeError"

append(l, value) ==
    IF check_item_bound(l) THEN [exc |-> "BoundExceedError", list |-> l]
    ELSE IF l.frozen THEN [exc |-> FrozenError, list |-> l]
    ELSE [exc |-> "none", list |-> [l EXCEPT !.items = Append(@, value)]]

extend(l, values) ==
    IF check_list_bound(l, values) THEN [exc |-> "BoundExceedError", list |-> l]
    ELSE IF l.frozen THEN [exc |-> FrozenError, list |-> l]
    ELSE [exc |-> "none", list |-> [l EXCEPT !.items = @ \o values]]

\* list.insert clamps the position: pos is the number of items left before it
insert(l, pos, item) ==
    IF check_item_bound(l) THEN [exc |-> "BoundExceedError", list |-> l]
    ELSE IF l.frozen THEN [exc |-> FrozenError, list |-> l]
    ELSE LET p == IF pos > Len(l.items) THEN Len(l.items) ELSE pos
         IN [exc |-> "none",
             list |-> [l EXCEPT !.items =
                          SubSeq(@, 1, p) \o <<item>> \o SubSeq(@, p + 1, Len(@))]]

\* What the dataclass __eq__ of an item compares: every field, but not the
\* identity of the object (the field id of a TrustItem of this model).
WithoutEvictionData(item) == [item EXCEPT !.eviction_data = <<>>]

WithoutId(item) ==
    IF "id" \in DOMAIN item THEN [f \in (DOMAIN item) \ {"id"} |-> item[f]] ELSE item

EqValue(item) ==
    IF "trust_items" \in DOMAIN item
    THEN [item EXCEPT !.trust_items = [i \in 1..Len(@) |-> WithoutId(@[i])]]
    ELSE WithoutId(item)

EqValues(items) == [i \in 1..Len(items) |-> EqValue(items[i])]

\* index of the first element equal (==) to value, 0 when there is none
IndexOf(s, value) ==
    IF \E i \in 1..Len(s) : EqValue(s[i]) = EqValue(value)
    THEN CHOOSE i \in 1..Len(s) :
            /\ EqValue(s[i]) = EqValue(value)
            /\ \A j \in 1..(i - 1) : EqValue(s[j]) # EqValue(value)
    ELSE 0

RemoveAt(s, i) == SubSeq(s, 1, i - 1) \o SubSeq(s, i + 1, Len(s))

\* FrozenList.remove: the frozen check, then list.remove (first equal element)
remove(l, value) ==
    IF l.frozen THEN [exc |-> FrozenError, list |-> l]
    ELSE IF IndexOf(l.items, value) = 0 THEN [exc |-> "ValueError", list |-> l]
    ELSE [exc |-> "none", list |-> [l EXCEPT !.items = RemoveAt(@, IndexOf(@, value))]]

(***************************************************************************)
(* simulation/agent_buffers.py: the knowledge items.  eviction_data is <<>>*)
(* for Python's None, <<t>> for a timestamp and <<t, t2>> for LRU2's pair. *)
(* A TrustItem also carries id, the identity of the Python object: a       *)
(* reputation snapshot made with copy.copy holds the same objects as the   *)
(* sender's trust store.  The dataclass __eq__ does not see the identity.  *)
(***************************************************************************)
CryptoItem(agent) == [agent |-> agent, eviction_data |-> <<>>]

TrustItem(id, agent, capability) ==
    [id |-> id, agent |-> agent, capability |-> capability,
     correct_count |-> 0, incorrect_count |-> 0, eviction_data |-> <<>>]

ReputationItem(agent, trust_items) ==
    [agent |-> agent, trust_items |-> trust_items, eviction_data |-> <<>>]

StereotypeItem(agent, capability) ==
    [agent |-> agent, capability |-> capability, eviction_data |-> <<>>]

ChallengeResponseItem(agent, good) ==
    [agent |-> agent, good |-> good, epoch |-> 0, sequential_fails |-> 0,
     eviction_data |-> <<>>]

total_count(item) == item.correct_count + item.incorrect_count

\* TrustItem.record
record(item, outcome) ==
    IF outcome = "Correct"
    THEN [item EXCEPT !.correct_count = @ + 1]
    ELSE [item EXCEPT !.incorrect_count = @ + 1]

\* X.basic(), the summary of an item that the metrics keep
basic(kind, item) ==
    CASE kind = "crypto" -> <<item.agent>>
      [] kind = "trust" -> <<item.agent, item.capability>>
      [] kind = "reputation" ->
            <<item.agent, [i \in 1..Len(item.trust_items) |->
                             <<item.trust_items[i].agent, item.trust_items[i].capability>>]>>
      [] kind = "stereotype" -> <<item.agent, item.capability>>
      [] kind = "cr" -> <<item.agent>>

\* AgentBuffers.__init__ with the five maximum lengths and the capacity of the
\* cuckoo filters.  badlist is <<>> for None and <<s>> for a filter, s being
\* the agents whose eui64 the filter answers contains() for.
AgentBuffers(crypto_bux_max, trust_bux_max, reputation_bux_max, stereotype_bux_max, cr_buf_max, cuckoo_max_capacity) ==
    [crypto |-> BoundedList(crypto_bux_max),
     trust |-> BoundedList(trust_bux_max),
     reputation |-> BoundedList(reputation_bux_max),
     stereotype |-> BoundedList(stereotype_bux_max),
     cr |-> BoundedList(cr_buf_max),
     badlist |-> IF cuckoo_max_capacity > 0 THEN <<{}>> ELSE <<>>]

\* FrozenList.freeze
freeze(l) == [l EXCEPT !.frozen = TRUE]

\* AgentBuffers.frozen_copy: a deep copy whose five stores are frozen
frozen_copy(bufs) ==
    [f \in DOMAIN bufs |-> IF f \in KindSet THEN freeze(bufs[f]) ELSE bufs[f]]

\* the first of the indexes that match, 0 (None) when none does
FirstIndex(matching) ==
    IF matching = {} THEN 0 ELSE CHOOSE i \in matching : \A j \in matching : i <= j

\* find_crypto .. find_challenge_response: the index of the item, 0 for None
find_crypto(bufs, agent) ==
    FirstIndex({i \in 1..Len(bufs.crypto.items) : bufs.crypto.items[i].agent = agent})

find_trust(bufs, agent, capability) ==
    FirstIndex({i \in 1..Len(bufs.trust.items) :
                   /\ bufs.trust.items[i].agent = agent
                   /\ bufs.trust.items[i].capability = capability})

find_reputation(bufs, agent) ==
    FirstIndex({i \in 1..Len(bufs.reputation.items) : bufs.reputation.items[i].agent = agent})

find_stereotype(bufs, agent, capability) ==
    FirstIndex({i \in 1..Len(bufs.stereotype.items) :
                   /\ bufs.stereotype.items[i].agent = agent
                   /\ bufs.stereotype.items[i].capability = capability})

find_challenge_response(bufs, agent) ==
    FirstIndex({i \in 1..Len(bufs.cr.items) : bufs.cr.items[i].agent = agent})

\* find_trust_by_agent .. find_stereotype_by_agent: the list of the items
find_trust_by_agent(bufs, agent) ==
    SelectSeq(bufs.trust.items, LAMBDA item : item.agent = agent)

find_reputation_contents_by_agent(bufs, agent) ==
    SelectSeq(bufs.reputation.items,
              LAMBDA item : \E j \in 1..Len(item.trust_items) :
                                item.trust_items[j].agent = agent)

find_reputation_contents_any_capability(bufs, agent, capability) ==
    SelectSeq(bufs.reputation.items,
              LAMBDA item : \E j \in 1..Len(item.trust_items) : item.trust_items[j].agent = agent)

find_reputation_contents(bufs, agent, capability) ==
    SelectSeq(bufs.reputation.items,
              LAMBDA item : \E j \in 1..Len(item.trust_items) :
                                /\ item.trust_items[j].agent = agent
                                /\ item.trust_items[j].capability = capability)

find_stereotype_by_agent(bufs, agent) ==
    SelectSeq(bufs.stereotype.items, LAMBDA item : item.agent = agent)

\* 1 when the condition of an `if` holds, for result += 1
One(cond) == IF cond THEN 1 ELSE 0

\* buffer_has_agent_count; which is the set of the letters of the argument
buffer_has_agent_count(bufs, agent, which) ==
    One("C" \in which /\ find_crypto(bufs, agent) # 0)
    + One("T" \in which /\ find_trust_by_agent(bufs, agent) # <<>>)
    + One("R" \in which /\ find_reputation_contents_by_agent(bufs, agent) # <<>>)
    + One("S" \in which /\ find_stereotype_by_agent(bufs, agent) # <<>>)
    + One("E" \in which /\ find_challenge_response(bufs, agent) # 0)

buffer_has_agent_capability_count(bufs, agent, capability, which) ==
    One("C" \in which /\ find_crypto(bufs, agent) # 0)
    + One("T" \in which /\ find_trust(bufs, agent, capability) # 0)
    + One("R" \in which /\ find_reputation_contents(bufs, agent, capability) # <<>>)
    + One("S" \in which /\ find_stereotype(bufs, agent, capability) # 0)
    + One("E" \in which /\ find_challenge_response(bufs, agent) # 0)

\* TrustItem.brs_trust, as the fraction <<numerator, denominator>>
brs_trust(item) ==
    IF total_count(item) = 0 THEN <<1, 2>> ELSE <<item.correct_count, total_count(item)>>

(***************************************************************************)
(* simulation/eviction_strategy.py.  es is the short_name of the strategy. *)
(***************************************************************************)
TimestampStrategies == {"FIFO", "LRU", "MRU"}

\* Chen2016 .. Cuckoo: their add_common and use_common are those of LRU
LRUStrategies == {"Chen2016", "FiveBand", "NotInOther", "MinNotInOther", "CapPri", "Cuckoo"}

\* EvictionStrategy.add_common and its overrides: the item after the hook
add_common(es, item, now) ==
    CASE es \in TimestampStrategies \cup LRUStrategies -> [item EXCEPT !.eviction_data = <<now>>]
      [] es = "LRU2" -> [item EXCEPT !.eviction_data = <<now, now>>]
      [] OTHER -> item

use_common_fifo_stamped(es, item, now) ==
    CASE es \in {"FIFO", "LRU", "MRU"} -> [item EXCEPT !.eviction_data = <<now>>]
      [] es = "LRU2" -> [item EXCEPT !.eviction_data = <<now, item.eviction_data[1]>>]
      [] OTHER -> item

use_common_lru_unstamped(es, item, now) ==
    CASE es = "MRU" -> [item EXCEPT !.eviction_data = <<now>>]
      [] es = "LRU2" -> [item EXCEPT !.eviction_data = <<now, item.eviction_data[1]>>]
      [] OTHER -> item

\* EvictionStrategy.use_common and its overrides on an item that is not None
use_common(es, item, now) ==
    CASE es \in {"LRU", "MRU"} \cup LRUStrategies -> [item EXCEPT !.eviction_data = <<now>>]
      [] es = "LRU2" -> [item EXCEPT !.eviction_data = <<now, item.eviction_data[1]>>]
      [] OTHER -> item

\* min(items, key=...), keys being the keys of the items in order: the
\* first item whose key is minimal
MinFirst(keys) ==
    CHOOSE i \in 1..Len(keys) :
        /\ \A j \in 1..Len(keys) : keys[i] <= keys[j]
        /\ \A j \in 1..(i - 1) : keys[j] > keys[i]

\* max(items, key=...): the first item whose key is maximal
MaxFirst(keys) ==
    CHOOSE i \in 1..Len(keys) :
        /\ \A j \in 1..Len(keys) : keys[i] >= keys[j]
        /\ \A j \in 1..(i - 1) : keys[j] < keys[i]

\* lambda x: x.eviction_data, for each item
Timestamps(items) == [i \in 1..Len(items) |-> items[i].eviction_data[1]]

\* lambda x: x.eviction_data[1], for each item
PreviousTimestamps(items) == [i \in 1..Len(items) |-> items[i].eviction_data[2]]

choose_common_none_evicts(es, items, rnd) ==
    CASE es = "None" -> [exc |-> "none", idx |-> IF items = <<>> THEN 0 ELSE 1]
      [] es = "Random" ->
            IF items = <<>> THEN [exc |-> "IndexError", idx |-> 0]
            ELSE [exc |-> "none", idx |-> ((rnd - 1) % Len(items)) + 1]
      [] es \in {"FIFO", "LRU"} ->
            IF items = <<>> THEN [exc |-> "ValueError", idx |-> 0]
            ELSE [exc |-> "none", idx |-> MinFirst(Timestamps(items))]
      [] es = "LRU2" ->
            IF items = <<>> THEN [exc |-> "ValueError", idx |-> 0]
            ELSE [exc |-> "none", idx |-> MinFirst(PreviousTimestamps(items))]
      [] es = "MRU" ->
            IF items = <<>> THEN [exc |-> "ValueError", idx |-> 0]
            ELSE [exc |-> "none", idx |-> MaxFirst(Timestamps(items))]

choose_common_lru2_by_latest(es, items, rnd) ==
    CASE es = "None" -> [exc |-> "none", idx |-> 0]
      [] es = "Random" ->
            IF items = <<>> THEN [exc |-> "IndexError", idx |-> 0]
            ELSE [exc |-> "none", idx |-> ((rnd - 1) % Len(items)) + 1]
      [] es \in {"FIFO", "LRU", "LRU2"} ->
            IF items = <<>> THEN [exc |-> "ValueError", idx |-> 0]
            ELSE [exc |-> "none", idx |-> MinFirst(Timestamps(items))]
      [] es = "MRU" ->
            IF items = <<>> THEN [exc |-> "ValueError", idx |-> 0]
            ELSE [exc |-> "none", idx |-> MaxFirst(Timestamps(items))]

\* choose_common of each strategy: the index of the victim in items, 0 for
\* None.  rnd is the draw of sim.rng.choice under the Random strategy.
choose_common(es, items, rnd) ==
    CASE es = "None" -> [exc |-> "none", idx |-> 0]
      [] es = "Random" ->
            IF items = <<>> THEN [exc |-> "IndexError", idx |-> 0]
            ELSE [exc |-> "none", idx |-> ((rnd - 1) % Len(items)) + 1]
      [] es \in {"FIFO", "LRU", "Chen2016", "FiveBand"} ->
            IF items = <<>> THEN [exc |-> "ValueError", idx |-> 0]
            ELSE [exc |-> "none", idx |-> MinFirst(Timestamps(items))]
      [] es = "LRU2" ->
            IF items = <<>> THEN [exc |-> "ValueError", idx |-> 0]
            ELSE [exc |-> "none", idx |-> MinFirst(PreviousTimestamps(items))]
      [] es = "MRU" ->
            IF items = <<>> THEN [exc |-> "ValueError", idx |-> 0]
            ELSE [exc |-> "none", idx |-> MaxFirst(Timestamps(items))]

\* min(selected, key=lambda x: x.eviction_data), selected being the items at
\* the indexes among, in the order of the list: the first whose key is minimal
MinFirstAmong(keys, among) ==
    CHOOSE i \in among :
        /\ \A j \in among : keys[i] <= keys[j]
        /\ \A j \in among : j < i => keys[j] > keys[i]

\* a <= b and a < b for fractions with positive denominators
Leq(a, b) == a[1] * b[2] <= b[1] * a[2]

Less(a, b) == a[1] * b[2] < b[1] * a[2]

\* the k-th smallest of the values, from 1
Kth(values, k) ==
    values[CHOOSE i \in 1..Len(values) :
              /\ Cardinality({j \in 1..Len(values) : Less(values[j], values[i])}) < k
              /\ k <= Cardinality({j \in 1..Len(values) : Leq(values[j], values[i])})]

\* lo + (hi - lo) * r / qd
Lerp(lo, hi, r, qd) ==
    <<lo[1] * hi[2] * qd + (hi[1] * lo[2] - lo[1] * hi[2]) * r, lo[2] * hi[2] * qd>>

\* np.quantile(values, qn / qd) with the default linear interpolation: the
\* value at position (n - 1) * qn / qd of the sorted values, interpolated
\* between the two neighbours of that position
quantile(values, qn, qd) ==
    Lerp(Kth(values, ((Len(values) - 1) * qn) \div qd + 1),
         Kth(values, IF ((Len(values) - 1) * qn) \div qd + 2 <= Len(values)
                     THEN ((Len(values) - 1) * qn) \div qd + 2
                     ELSE Len(values)),
         ((Len(values) - 1) * qn) % qd, qd)

\* [item.brs_trust() for item in items]
item_trust(items) == [i \in 1..Len(items) |-> brs_trust(items[i])]

\* try: min(filtered_items, ...) except ValueError: the fallback, for a list
\* of items that is not empty
min_or(items, filtered, fallback) ==
    IF filtered # {} THEN MinFirstAmong(Timestamps(items), filtered) ELSE fallback

\* [item for item in items if item.brs_trust() <= quantile], as indexes
at_or_below(items, q) == {i \in 1..Len(items) : Leq(brs_trust(items[i]), q)}

Chen2016_victim_lru(items) == MinFirst(Timestamps(items))

\* Chen2016EvictionStrategy.choose_trust for a list that is not empty
Chen2016_victim(items) ==
    min_or(items, at_or_below(items, quantile(item_trust(items), 1, 2)),
           MinFirst(Timestamps(items)))

FiveBand_filtered_with_middle(items, low, lowmid, mid, highmid) ==
    {i \in 1..Len(items) :
        Less(low, brs_trust(items[i])) /\ Leq(brs_trust(items[i]), highmid)}

\* the items with low < trust <= lowmid or mid < trust <= highmid
FiveBand_filtered(items, low, lowmid, mid, highmid) ==
    {i \in 1..Len(items) :
        \/ Less(low, brs_trust(items[i])) /\ Leq(brs_trust(items[i]), lowmid)
        \/ Less(mid, brs_trust(items[i])) /\ Leq(brs_trust(items[i]), highmid)}

\* FiveBandEvictionStrategy.choose_trust for a list that is not empty
FiveBand_victim(items) ==
    min_or(items,
           FiveBand_filtered(items, quantile(item_trust(items), 1, 5),
                             quantile(item_trust(items), 2, 5),
                             quantile(item_trust(items), 3, 5),
                             quantile(item_trust(items), 4, 5)),
           Chen2016_victim(items))

\* choose_trust of Chen2016 and FiveBand; with no items np.quantile or the
\* last min raises
choose_trust_by_score(es, items) ==
    IF items = <<>> THEN [exc |-> "ValueError", idx |-> 0]
    ELSE [exc |-> "none",
          idx |-> IF es = "Chen2016" THEN Chen2016_victim(items) ELSE FiveBand_victim(items)]

RECURSIVE capability_count_sum(_, _, _)
\* sum(buffers.buffer_has_agent_capability_count(trust_item.agent,
\* trust_item.capability, "CTS") for trust_item in item.trust_items), from i
capability_count_sum(bufs, trust_items, i) ==
    IF i > Len(trust_items) THEN 0
    ELSE buffer_has_agent_capability_count(bufs, trust_items[i].agent,
                                           trust_items[i].capability, {"C", "T", "S"})
         + capability_count_sum(bufs, trust_items, i + 1)

\* the count that NotInOther and MinNotInOther pair an item of this kind with
other_count(kind, item, bufs) ==
    CASE kind = "crypto" -> buffer_has_agent_count(bufs, item.agent, {"T", "R", "S"})
      [] kind = "trust" ->
            buffer_has_agent_capability_count(bufs, item.agent, item.capability, {"C", "R", "S"})
      [] kind = "reputation" -> capability_count_sum(bufs, item.trust_items, 1)
      [] kind = "stereotype" ->
            buffer_has_agent_capability_count(bufs, item.agent, item.capability, {"C", "T", "R"})

other_counts(kind, items, bufs) == [i \in 1..Len(items) |-> other_count(kind, items[i], bufs)]

\* the largest of a set of numbers that is not empty
MaxOf(numbers) == CHOOSE x \in numbers : \A y \in numbers : y <= x

item_priority_without_snapshot(kind, item) ==
    CASE kind = "crypto" -> MaxOf({priority(capability) : capability \in AgentCapabilities(item.agent)})
      [] kind \in {"trust", "stereotype"} -> priority(item.capability)
      [] kind = "reputation" -> -1

\* the priority that CapPri pairs an item of this kind with
item_priority(kind, item) ==
    CASE kind = "crypto" -> MaxOf({priority(capability) : capability \in AgentCapabilities(item.agent)})
      [] kind \in {"trust", "stereotype"} -> priority(item.capability)
      [] kind = "reputation" ->
            IF item.trust_items = <<>> THEN -1
            ELSE MaxOf({priority(item.trust_items[j].capability) :
                          j \in 1..Len(item.trust_items)})

item_priorities(kind, items) == [i \in 1..Len(items) |-> item_priority(kind, items[i])]

\* the indexes of the choices whose count (or priority) is this one
selected_with(counts, count) == {i \in 1..Len(counts) : counts[i] = count}

NotInOther_lru_of_all(items, counts) ==
    IF items = <<>> THEN [exc |-> "none", idx |-> 0]
    ELSE [exc |-> "none", idx |-> MinFirst(Timestamps(items))]

\* NotInOtherEvictionStrategy._lru, counts being the counts of the choices
NotInOther_lru(items, counts) ==
    IF items = <<>> THEN [exc |-> "none", idx |-> 0]
    ELSE [exc |-> "none",
          idx |-> min_or(items, selected_with(counts, 0), MinFirst(Timestamps(items)))]

Min_lru_of_absent(items, counts) == NotInOther_lru(items, counts)

\* MinNotInOtherEvictionStrategy._lru and CapabilityPriorityEvictionStrategy._lru
Min_lru(items, counts) ==
    IF items = <<>> THEN [exc |-> "none", idx |-> 0]
    ELSE [exc |-> "none",
          idx |-> MinFirstAmong(Timestamps(items),
                                selected_with(counts, counts[MinFirst(counts)]))]

\* the items about an agent the badlist contains, as indexes
badlisted_items(items, bufs) ==
    {i \in 1..Len(items) : items[i].agent \in bufs.badlist[1]}

\* CuckooEvictionStrategy.choose_common: min(items, ...) with badlisted
\* items and without
Cuckoo_choose_common(items, bufs) ==
    IF bufs.badlist = <<>> THEN [exc |-> "AssertionError", idx |-> 0]
    ELSE IF items = <<>> THEN [exc |-> "none", idx |-> 0]
    ELSE [exc |-> "none",
          idx |-> IF badlisted_items(items, bufs) # {}
                  THEN MinFirst(Timestamps(items))
                  ELSE MinFirst(Timestamps(items))]

\* choose_crypto, choose_trust, choose_reputation, choose_stereotype and
\* choose_challenge_response of each strategy; those that a strategy does not
\* override answer with its choose_common
choose(es, kind, items, bufs, new_item, rnd) ==
    CASE es \in {"Chen2016", "FiveBand"} /\ kind = "trust" -> choose_trust_by_score(es, items)
      [] es \in {"NotInOther", "MinNotInOther", "CapPri"} /\ kind = "cr" ->
            choose_common("LRU", items, rnd)
      [] es = "NotInOther" /\ kind # "cr" ->
            NotInOther_lru(items, other_counts(kind, items, bufs))
      [] es = "MinNotInOther" /\ kind # "cr" ->
            Min_lru(items, other_counts(kind, items, bufs))
      [] es = "CapPri" /\ kind # "cr" -> Min_lru(items, item_priorities(kind, items))
      [] es = "Cuckoo" -> Cuckoo_choose_common(items, bufs)
      [] OTHER -> choose_common(es, items, rnd)

(***************************************************************************)
(* simulation/agent_buffers.py, add_crypto .. add_challenge_response: the  *)
(* five methods are the same code on the five stores.  The result holds    *)
(* the stores afterwards, the eviction records appended to the metrics,    *)
(* the number of calls of the strategy's add hook, the victim (0 for none) *)
(* and the exception that leaves the method.                               *)
(***************************************************************************)
AddResult(bufs, evicted, hooks, victim, exc) ==
    [buffers |-> bufs, evicted |-> evicted, hooks |-> hooks, victim |-> victim, exc |-> exc]

\* the item just appended, after es.add_X(item) has stamped it
StampLast(l, es, now) ==
    LET n == Len(l.items)
    IN [l EXCEPT !.items = [i \in 1..n |-> IF i = n THEN add_common(es, l.items[i], now)
                                                     ELSE l.items[i]]]

add_item_uncaught(bufs, kind, es, item, now, owner, rnd) ==
    LET first == append(bufs[kind], item)
    IN IF first.exc = "none"
       THEN AddResult([bufs EXCEPT ![kind] = StampLast(first.list, es, now)], <<>>, 1, 0, "none")
       ELSE AddResult(bufs, <<>>, 0, 0, first.exc)

add_item_metric_on_reject(bufs, kind, es, item, now, owner, rnd) ==
    LET first == append(bufs[kind], item)
    IN IF first.exc = "none"
       THEN AddResult([bufs EXCEPT ![kind] = StampLast(first.list, es, now)], <<>>, 1, 0, "none")
       ELSE AddResult(bufs, <<<<now, owner, basic(kind, item)>>>>, 0, 0, "none")

add_item_evict_first(bufs, kind, es, item, now, owner, rnd) ==
    LET first == append(bufs[kind], item)
        choice == choose(es, kind, bufs[kind].items, bufs, item, rnd)
        victim == bufs[kind].items[1]
        second == append(remove(bufs[kind], victim).list, item)
    IN IF first.exc = "none"
       THEN AddResult([bufs EXCEPT ![kind] = StampLast(first.list, es, now)], <<>>, 1, 0, "none")
       ELSE IF choice.idx = 0
       THEN AddResult(bufs, <<>>, 0, 0, "none")
       ELSE AddResult([bufs EXCEPT ![kind] = StampLast(second.list, es, now)],
                      <<<<now, owner, basic(kind, victim)>>>>, 1, 1, "none")

add_item_hook_on_reject(bufs, kind, es, item, now, owner, rnd) ==
    LET first == append(bufs[kind], item)
    IN IF first.exc = "none"
       THEN AddResult([bufs EXCEPT ![kind] = StampLast(first.list, es, now)], <<>>, 1, 0, "none")
       ELSE AddResult(bufs, <<>>, 1, 0, "none")

add_item(bufs, kind, es, item, now, owner, rnd) ==
    LET first == append(bufs[kind], item)
    IN IF first.exc = "none"
       THEN \* appended: es.add_X(item)
            AddResult([bufs EXCEPT ![kind] = StampLast(first.list, es, now)], <<>>, 1, 0, "none")
       ELSE IF first.exc # "BoundExceedError"
       THEN \* only BoundExceedError is caught
            AddResult(bufs, <<>>, 0, 0, first.exc)
       ELSE \* except BoundExceedError: consider evicting
            LET choice == choose(es, kind, bufs[kind].items, bufs, item, rnd)
            IN IF choice.exc # "none"
               THEN AddResult(bufs, <<>>, 0, 0, choice.exc)
               ELSE IF choice.idx = 0
               THEN \* choice is None: return
                    AddResult(bufs, <<>>, 0, 0, "none")
               ELSE LET victim == bufs[kind].items[choice.idx]
                        removed == remove(bufs[kind], victim)
                        evicted == <<<<now, owner, basic(kind, victim)>>>>
                        second == append(removed.list, item)
                    IN IF removed.exc # "none"
                       THEN AddResult(bufs, <<>>, 0, choice.idx, removed.exc)
                       ELSE IF second.exc # "none"
                       THEN AddResult([bufs EXCEPT ![kind] = removed.list], evicted, 0,
                                      choice.idx, second.exc)
                       ELSE AddResult([bufs EXCEPT ![kind] = StampLast(second.list, es, now)],
                                      evicted, 1, choice.idx, "none")

add_crypto(bufs, es, item, now, owner, rnd) ==
    add_item(bufs, "crypto", es, item, now, owner, rnd)

add_trust(bufs, es, item, now, owner, rnd) ==
    add_item(bufs, "trust", es, item, now, owner, rnd)

add_reputation(bufs, es, item, now, owner, rnd) ==
    add_item(bufs, "reputation", es, item, now, owner, rnd)

add_stereotype(bufs, es, item, now, owner, rnd) ==
    add_item(bufs, "stereotype", es, item, now, owner, rnd)

add_challenge_response(bufs, es, item, now, owner, rnd) ==
    add_item(bufs, "cr", es, item, now, owner, rnd)

(***************************************************************************)
(* The state.  es is the eviction strategy of the run, buffers the         *)
(* AgentBuffers of every agent, current_time and queue the Simulator's     *)
(* clock and heap, utility_targets its utility_targets, popped the event   *)
(* the run loop popped last (NoEvent before the first), metrics the Metrics *)
(* lists, status the position of Simulator.run, serial the number of       *)
(* TrustItem objects created so far.                                       *)
(* calls records the store operations of the last step (what was called,   *)
(* the store before and after, the eviction records it appended, the hook  *)
(* calls and the exception) and ops counts the steps of the store harness. *)
(***************************************************************************)
(***************************************************************************)
(* simulation/capability_behaviour.py: a CapabilityBehaviour is the three  *)
(* matrices of its CategoricalHMM, in percent, its state_history and its   *)
(* individual_seed.  States: 1 WellBehaved, 2 BadlyBehaved; observations:  *)
(* 1 Correct, 2 Incorrect.                                                 *)
(***************************************************************************)
MaxSeed == 3

BehaviourClasses == {"AlwaysGood", "AlwaysBad", "VeryGood", "Good", "Unstable"}

\* hmm.startprob_ set by the class
startprob_of(class) ==
    CASE class = "AlwaysGood" -> <<100, 0>>
      [] class = "AlwaysBad" -> <<0, 100>>
      [] class = "VeryGood" -> <<99, 1>>
      [] class = "Good" -> <<90, 10>>
      [] class = "Unstable" -> <<50, 50>>

\* hmm.transmat_ set by the class
transmat_of(class) ==
    CASE class \in {"AlwaysGood", "AlwaysBad"} -> <<<<100, 0>>, <<0, 100>>>>
      [] class = "VeryGood" -> <<<<99, 1>>, <<80, 20>>>>
      [] class = "Good" -> <<<<90, 10>>, <<60, 40>>>>
      [] class = "Unstable" -> <<<<50, 50>>, <<50, 50>>>>

\* hmm.emissionprob_ set by the class
emissionprob_of(class) ==
    CASE class \in {"AlwaysGood", "AlwaysBad"} -> <<<<100, 0>>, <<0, 100>>>>
      [] class = "VeryGood" -> <<<<99, 1>>, <<0, 100>>>>
      [] class \in {"Good", "Unstable"} -> <<<<90, 10>>, <<0, 100>>>>

\* behaviour(): CapabilityBehaviour.__init__ and the __init__ of the class
CapabilityBehaviour(class) ==
    [class |-> class, startprob |-> startprob_of(class), transmat |-> transmat_of(class),
     emissionprob |-> emissionprob_of(class), state_history |-> <<>>, individual_seed |-> 0]

RECURSIVE xor(_, _)
\* seed ^ self.individual_seed
xor(a, b) == IF a = 0 /\ b = 0 THEN 0 ELSE ((a + b) % 2) + 2 * xor(a \div 2, b \div 2)

\* the two numbers of [0, 1), in percent, that RandomState(seed) draws first:
\* a fixed function of the seed
rand(seed) == <<(seed * 33) % 100, (seed * 67 + 99) % 100>>

\* (cdf > rand).argmax() over the two entries of a row
draw(row, u) == IF row[1] > u THEN 1 ELSE 2

\* hmm.sample(1, random_state=seed): the state drawn from startprob_ and the
\* observation drawn from the row of emissionprob_ of that state
sample(self, seed) ==
    [state |-> draw(self.startprob, rand(seed)[1]),
     x |-> draw(self.emissionprob[draw(self.startprob, rand(seed)[1])], rand(seed)[2])]

observations == <<"Correct", "Incorrect">>

\* the assert of AlwaysGoodBehaviour and AlwaysBadBehaviour on the result
result_asserted(self, result) ==
    IF \/ self.class = "AlwaysGood" /\ result # "Correct"
       \/ self.class = "AlwaysBad" /\ result # "Incorrect"
    THEN "AssertionError" ELSE "none"

\* what a call on a behaviour leaves and returns
Answer(self, result) == [self |-> self, result |-> result, exc |-> result_asserted(self, result)]

peek_interaction_advancing(self, seed) ==
    Answer([self EXCEPT !.startprob = self.transmat[sample(self, xor(seed, self.individual_seed)).state]],
           observations[sample(self, xor(seed, self.individual_seed)).x])

\* CapabilityBehaviour.peek_interaction
peek_interaction(self, seed) ==
    Answer(self, observations[sample(self, xor(seed, self.individual_seed)).x])

\* CapabilityBehaviour.next_interaction
next_interaction(self, seed, t) ==
    Answer([self EXCEPT
               !.startprob = self.transmat[sample(self, xor(seed, self.individual_seed)).state],
               !.state_history =
                   Append(@, <<t, sample(self, xor(seed, self.individual_seed)).state>>)],
           observations[sample(self, xor(seed, self.individual_seed)).x])

VARIABLES es, utility_targets, capability_behaviour, buffers, current_time, queue, popped,
          metrics, status, serial, calls, ops

vars == <<es, utility_targets, capability_behaviour, buffers, current_time, queue, popped,
          metrics, status, serial, calls, ops>>

\* the behaviours of the agents where their latent state is not followed: the
\* outcomes they answer are drawn by the step that asks for them
NoBehaviours == <<>>

\* no event popped yet
NoEvent == [type |-> "None", event_time |-> 0, agent |-> 0, capability |-> 0, other |-> 0]

\* simulation/metrics.py, Metrics.__init__
Metrics ==
    [interaction_performed |-> <<>>,
     interaction_agent_select_fail |-> <<>>,
     buffers |-> <<>>,
     evicted_crypto |-> <<>>,
     evicted_trust |-> <<>>,
     evicted_reputation |-> <<>>,
     evicted_stereotype |-> <<>>,
     evicted_challenge_response |-> <<>>]

\* the list add_evicted_crypto .. add_evicted_challenge_response append to
EvictedList(kind) ==
    CASE kind = "crypto" -> "evicted_crypto"
      [] kind = "trust" -> "evicted_trust"
      [] kind = "reputation" -> "evicted_reputation"
      [] kind = "stereotype" -> "evicted_stereotype"
      [] kind = "cr" -> "evicted_challenge_response"

add_evicted(m, kind, evicted) == [m EXCEPT ![EvictedList(kind)] = @ \o evicted]

\* the record of one add_X call
AddCall(kind, owner, bufs, item, rnd, r) ==
    [fn |-> "add", kind |-> kind, owner |-> owner, item |-> item, rnd |-> rnd,
     before |-> bufs, after |-> r.buffers, evicted |-> r.evicted, hooks |-> r.hooks,
     victim |-> r.victim, exc |-> r.exc]

\* the record of one direct BoundedList call
ListCall(fn, kind, owner, bufs, r) ==
    [fn |-> fn, kind |-> kind, owner |-> owner, item |-> <<>>, rnd |-> 0,
     before |-> bufs, after |-> [bufs EXCEPT ![kind] = r.list], evicted |-> <<>>,
     hooks |-> 0, victim |-> 0, exc |-> r.exc]

(***************************************************************************)
(* The store harness: one agent's AgentBuffers under every strategy and    *)
(* every capacity 0..MaxCapacity, driven by any sequence of add_X calls,   *)
(* strategy use hooks, direct BoundedList calls and clock ticks.           *)
(***************************************************************************)
Owner == 1

\* the agents the harness stores items about
Peers == 2..(NumPeers + 1)

\* the values sim.rng.choice may draw among n items
Draws(strategy, n) == IF strategy = "Random" /\ n > 0 THEN 1..n ELSE {1}

BufInit ==
    /\ es \in Strategies
    /\ \E c \in 0..MaxCapacity :
          buffers = [a \in Agents |-> AgentBuffers(c, c, c, c, c, 0)]
    /\ utility_targets = "All"
    /\ current_time = 0
    /\ queue = <<>>
    /\ popped = NoEvent
    /\ metrics = Metrics
    /\ status = "stores"
    /\ serial = 0
    /\ calls = <<>>
    /\ ops = 0
    /\ capability_behaviour = NoBehaviours

BufAdd(kind, item) ==
    /\ ops < MaxOps
    /\ \E rnd \in Draws(es, Len(buffers[Owner][kind].items)) :
          LET r == add_item(buffers[Owner], kind, es, item, current_time, Owner, rnd)
          IN /\ buffers' = [buffers EXCEPT ![Owner] = r.buffers]
             /\ metrics' = add_evicted(metrics, kind, r.evicted)
             /\ calls' = <<AddCall(kind, Owner, buffers[Owner], item, rnd, r)>>
    /\ ops' = ops + 1
    /\ UNCHANGED <<es, utility_targets, capability_behaviour, popped, current_time, queue, status, serial>>

\* The callers of add_X look the key up first and add only when it is absent
\* (agent.py, receive_crypto_information and the other receive methods).
BufAddCrypto ==
    \E a \in Peers :
        /\ find_crypto(buffers[Owner], a) = 0
        /\ BufAdd("crypto", CryptoItem(a))

BufAddTrust ==
    \E a \in Peers, c \in Capabilities :
        /\ find_trust(buffers[Owner], a, c) = 0
        /\ BufAdd("trust", TrustItem(0, a, c))

\* a reputation item as receive_trust_information builds it: a copy of the
\* sender's trust list, here empty or holding one TrustItem of the sender
BufAddReputation ==
    \E a \in Peers :
        \E snapshot \in {<<>>} \cup {<<add_common(es, TrustItem(0, Owner, c), current_time)>> :
                                        c \in Capabilities} :
            /\ find_reputation(buffers[Owner], a) = 0
            /\ BufAdd("reputation", ReputationItem(a, snapshot))

BufAddStereotype ==
    \E a \in Peers, c \in Capabilities :
        /\ find_stereotype(buffers[Owner], a, c) = 0
        /\ BufAdd("stereotype", StereotypeItem(a, c))

BufAddChallengeResponse ==
    \E a \in Peers, good \in BOOLEAN :
        /\ find_challenge_response(buffers[Owner], a) = 0
        /\ BufAdd("cr", ChallengeResponseItem(a, good))

\* es.use_X(item) on a stored item
BufUse ==
    /\ ops < MaxOps
    /\ \E kind \in KindSet : \E i \in 1..Len(buffers[Owner][kind].items) :
          buffers' = [buffers EXCEPT ![Owner][kind].items[i] = use_common(es, @, current_time)]
    /\ ops' = ops + 1
    /\ calls' = <<>>
    /\ UNCHANGED <<es, utility_targets, capability_behaviour, popped, current_time, queue, metrics, status, serial>>

BufTick ==
    /\ ops < MaxOps
    /\ current_time < MaxTime
    /\ current_time' = current_time + 1
    /\ ops' = ops + 1
    /\ calls' = <<>>
    /\ UNCHANGED <<es, utility_targets, capability_behaviour, popped, buffers, queue, metrics, status, serial>>

\* a direct call of a BoundedList method on the crypto store
BufList(fn, r) ==
    /\ ops < MaxOps
    /\ buffers' = [buffers EXCEPT ![Owner].crypto = r.list]
    /\ calls' = <<ListCall(fn, "crypto", Owner, buffers[Owner], r)>>
    /\ ops' = ops + 1
    /\ UNCHANGED <<es, utility_targets, capability_behaviour, popped, current_time, queue, metrics, status, serial>>

\* a crypto item as the stores hold it: stamped by the strategy's add hook
Stamped(a) == add_common(es, CryptoItem(a), current_time)

BufAppend ==
    \E a \in Peers :
        /\ find_crypto(buffers[Owner], a) = 0
        /\ BufList("append", append(buffers[Owner].crypto, Stamped(a)))

BufInsert ==
    \E a \in Peers, pos \in 0..MaxCapacity :
        /\ find_crypto(buffers[Owner], a) = 0
        /\ BufList("insert", insert(buffers[Owner].crypto, pos, Stamped(a)))

BufExtend ==
    \E a \in Peers, n \in 0..2 :
        /\ \A i \in 0..(n - 1) : a + i \in Peers /\ find_crypto(buffers[Owner], a + i) = 0
        /\ BufList("extend", extend(buffers[Owner].crypto, [i \in 1..n |-> Stamped(a + i - 1)]))

\* remove of a stored item, or of one that is not in the store
BufRemove ==
    \E item \in {buffers[Owner].crypto.items[i] : i \in 1..Len(buffers[Owner].crypto.items)}
                   \cup {CryptoItem(Owner)} :
        BufList("remove", remove(buffers[Owner].crypto, item))

BufNext ==
    \/ BufAddCrypto
    \/ BufAddTrust
    \/ BufAddReputation
    \/ BufAddStereotype
    \/ BufAddChallengeResponse
    \/ BufUse
    \/ BufTick
    \/ BufAppend
    \/ BufInsert
    \/ BufExtend
    \/ BufRemove

SpecBuf == BufInit /\ [][BufNext]_vars

(***************************************************************************)
(* The frozen stores: the harness agent's buffers are replaced by their    *)
(* frozen_copy at some point, and the BoundedList methods are called on    *)
(* the crypto store before and after that.                                 *)
(***************************************************************************)
BufFreeze ==
    /\ ops < MaxOps
    /\ \E kind \in KindSet : ~buffers[Owner][kind].frozen
    /\ buffers' = [buffers EXCEPT ![Owner] = frozen_copy(@)]
    /\ calls' = <<>>
    /\ ops' = ops + 1
    /\ UNCHANGED <<es, utility_targets, capability_behaviour, popped, current_time, queue, metrics, status, serial>>

FrozenNext ==
    \/ BufFreeze
    \/ BufAppend
    \/ BufInsert
    \/ BufExtend
    \/ BufRemove

SpecFrozen == BufInit /\ [][FrozenNext]_vars

(***************************************************************************)
(* simulation/events.py: an event is its class, its event_time and the     *)
(* agents and capability it refers to (0 where the class has none).        *)
(* AgentTaskInteraction: agent is the source and other the target.         *)
(* AgentCryptoRequest, AgentStereotypeRequest: agent is the requester and   *)
(* other the agent asked.  The run is configured as run_simulation.py      *)
(* configures it by default, with challenge_response_period None, so no    *)
(* AgentSendChallenge and no AgentReceiveChallengeResponse is ever queued. *)
(***************************************************************************)
Event(type, event_time, agent, capability, other) ==
    [type |-> type, event_time |-> event_time, agent |-> agent,
     capability |-> capability, other |-> other]

AgentInit(event_time, agent) == Event("AgentInit", event_time, agent, 0, 0)

AgentCapabilityTask(event_time, agent, capability) ==
    Event("AgentCapabilityTask", event_time, agent, capability, 0)

\* scheduled is what the stores of source held when the event was built.  The
\* event's buffers are copy.copy(source.buffers), a new AgentBuffers whose five
\* attributes are the source's own BoundedList objects, so the action reads
\* the source's stores as they are when it runs.
AgentTaskInteraction(event_time, source, capability, target, scheduled) ==
    [type |-> "AgentTaskInteraction", event_time |-> event_time, agent |-> source,
     capability |-> capability, other |-> target, scheduled |-> scheduled]

AgentTrustDissemination(event_time, agent) ==
    Event("AgentTrustDissemination", event_time, agent, 0, 0)

AgentCryptoRequest(event_time, requester, agent) ==
    Event("AgentCryptoRequest", event_time, requester, 0, agent)

AgentStereotypeRequest(event_time, requester, agent) ==
    Event("AgentStereotypeRequest", event_time, requester, 0, agent)

\* BaseEvent.__lt__
Lt(a, b) == a.event_time < b.event_time

(***************************************************************************)
(* heapq, as Simulator.add_event and Simulator.run use it: the queue is    *)
(* the heap's list, position p of Python being position p + 1 here.        *)
(***************************************************************************)
RECURSIVE siftdown(_, _, _, _)
\* heapq._siftdown: move newitem from pos towards startpos past larger parents
siftdown(heap, startpos, pos, newitem) ==
    IF pos > startpos /\ Lt(newitem, heap[pos \div 2])
    THEN siftdown([heap EXCEPT ![pos] = heap[pos \div 2]], startpos, pos \div 2, newitem)
    ELSE [heap EXCEPT ![pos] = newitem]

RECURSIVE siftup(_, _, _)
\* heapq._siftup: bubble the smaller child up to a leaf, then sift newitem down
siftup(heap, pos, newitem) ==
    LET childpos == 2 * pos
        rightpos == childpos + 1
        smaller == IF rightpos <= Len(heap) /\ ~Lt(heap[childpos], heap[rightpos])
                   THEN rightpos ELSE childpos
    IN IF childpos <= Len(heap)
       THEN siftup([heap EXCEPT ![pos] = heap[smaller]], smaller, newitem)
       ELSE siftdown(heap, 1, pos, newitem)

\* heapq.heappush
heappush(heap, item) == siftdown(Append(heap, item), 1, Len(heap) + 1, item)

heappop_last(heap) ==
    [item |-> heap[Len(heap)], heap |-> SubSeq(heap, 1, Len(heap) - 1)]

\* heapq.heappop of a heap that is not empty: the item and the heap left
heappop(heap) ==
    LET lastelt == heap[Len(heap)]
        rest == SubSeq(heap, 1, Len(heap) - 1)
    IN IF rest = <<>>
       THEN [item |-> lastelt, heap |-> rest]
       ELSE [item |-> heap[1], heap |-> siftup(rest, 1, lastelt)]

(***************************************************************************)
(* The part of the state an event's action works on, threaded through the  *)
(* calls the action makes: w.exc is the exception that is propagating, and *)
(* a call made while one propagates does nothing.                          *)
(***************************************************************************)
World(b, q, m, n, c) ==
    [buffers |-> b, queue |-> q, metrics |-> m, serial |-> n, calls |-> c, exc |-> "none"]

Raise(w, exc) == IF w.exc = "none" THEN [w EXCEPT !.exc = exc] ELSE w

\* Simulator.add_event
add_event(w, event) ==
    IF w.exc # "none" THEN w ELSE [w EXCEPT !.queue = heappush(@, event)]

\* Every copy of the TrustItem object item.id, in the owner's trust store and
\* in the reputation snapshots that hold the same object, is that one object.
SameObject(old, item) == IF old.id = item.id THEN item ELSE old

WriteTrustItem(bufs, item) ==
    [a \in Agents |->
        [bufs[a] EXCEPT
            !.trust.items = [i \in 1..Len(bufs[a].trust.items) |->
                                SameObject(bufs[a].trust.items[i], item)],
            !.reputation.items =
                [i \in 1..Len(bufs[a].reputation.items) |->
                    [bufs[a].reputation.items[i] EXCEPT
                        !.trust_items =
                            [j \in 1..Len(bufs[a].reputation.items[i].trust_items) |->
                                SameObject(bufs[a].reputation.items[i].trust_items[j], item)]]]]]

\* es.use_crypto .. es.use_challenge_response on the item at idx of the
\* owner's store; idx = 0 is the call with None
use_item(w, owner, kind, idx, now) ==
    IF w.exc # "none" \/ idx = 0 THEN w
    ELSE IF kind = "trust"
    THEN [w EXCEPT !.buffers =
             WriteTrustItem(@, use_common(es, w.buffers[owner].trust.items[idx], now))]
    ELSE [w EXCEPT !.buffers[owner][kind].items[idx] = use_common(es, @, now)]

\* what the add_X call with result r leaves: the stores, its eviction records
added(w, owner, kind, item, rnd, r) ==
    [w EXCEPT !.buffers[owner] = r.buffers,
              !.metrics = add_evicted(@, kind, r.evicted),
              !.calls = Append(@, AddCall(kind, owner, w.buffers[owner], item, rnd, r)),
              !.exc = r.exc]

\* self.buffers.add_X(self.sim.es, item)
add_to_buffers(w, owner, kind, item, now, rnd) ==
    IF w.exc # "none" THEN w
    ELSE added(w, owner, kind, item, rnd,
               add_item(w.buffers[owner], kind, es, item, now, owner, rnd))

(***************************************************************************)
(* simulation/agent.py: the operations of an Agent.  now is                *)
(* sim.current_time, rnd the draw of sim.rng that a Random eviction makes. *)
(***************************************************************************)
\* simulation/constants.py
EPSILON == 1

request_stereotype(w, self, agent, now) ==
    add_event(w, AgentStereotypeRequest(now + EPSILON, self, agent))

request_crypto(w, self, agent, now) ==
    add_event(w, AgentCryptoRequest(now + EPSILON, self, agent))

\* receive_trust_information: request stereotype information if missing any
request_missing_stereotype(w, self, agent, now) ==
    IF \E capability \in AgentCapabilities(self) :
           find_stereotype(w.buffers[self], agent, capability) = 0
    THEN request_stereotype(w, self, agent, now)
    ELSE w

\* the reputation information added without looking for an item of the sender
record_reputation_always_added(w, self, agent, now, rnd) ==
    add_to_buffers(w, self, "reputation",
                   ReputationItem(agent, w.buffers[agent].trust.items), now, rnd)

\* receive_trust_information: record reputation information; the copy of
\* agent.buffers.trust holds the TrustItem objects of the sender's store
record_reputation(w, self, agent, now, rnd) ==
    IF find_reputation(w.buffers[self], agent) = 0
    THEN add_to_buffers(w, self, "reputation",
                        ReputationItem(agent, w.buffers[agent].trust.items), now, rnd)
    ELSE [w EXCEPT !.buffers[self].reputation.items[find_reputation(w.buffers[self], agent)]
                       .trust_items = w.buffers[agent].trust.items]

receive_trust_information(w, self, agent, now, rnd) ==
    IF agent = self \/ w.exc # "none" THEN w
    ELSE IF find_crypto(w.buffers[self], agent) = 0 THEN request_crypto(w, self, agent, now)
    ELSE record_reputation(
             request_missing_stereotype(
                 use_item(w, self, "crypto", find_crypto(w.buffers[self], agent), now),
                 self, agent, now),
             self, agent, now, rnd)

receive_crypto_information(w, self, agent, now, rnd) ==
    IF agent = self \/ w.exc # "none" THEN w
    ELSE IF find_crypto(w.buffers[self], agent) # 0 THEN w
    ELSE add_to_buffers(w, self, "crypto", CryptoItem(agent), now, rnd)

receive_stereotype_information(w, self, agent, capability, now, rnd) ==
    IF agent = self \/ w.exc # "none" THEN w
    ELSE IF capability \notin AgentCapabilities(self) THEN w
    ELSE IF find_stereotype(w.buffers[self], agent, capability) # 0 THEN w
    ELSE add_to_buffers(w, self, "stereotype", StereotypeItem(agent, capability), now, rnd)

\* update_trust_history after the lookup and the add_trust: the second
\* lookup, the assert, and trust_item.record(outcome)
record_outcome(w, self, agent, capability, outcome) ==
    IF w.exc # "none" THEN w
    ELSE IF find_trust(w.buffers[self], agent, capability) = 0
    THEN Raise(w, "AssertionError")
    ELSE [w EXCEPT !.buffers =
             WriteTrustItem(@, record(w.buffers[self].trust.items[
                                          find_trust(w.buffers[self], agent, capability)],
                                      outcome))]

update_trust_history(w, self, agent, capability, outcome, now, rnd) ==
    IF w.exc # "none" THEN w
    ELSE record_outcome(
             IF find_trust(w.buffers[self], agent, capability) = 0
             THEN add_to_buffers([w EXCEPT !.serial = @ + 1], self, "trust",
                                 TrustItem(w.serial + 1, agent, capability), now, rnd)
             ELSE w,
             self, agent, capability, outcome)

\* trust_item.agent is item: an Agent is never the CryptoItem chosen
AgentIsItem(agent, item) == FALSE

RECURSIVE use_reputation_matching(_, _, _, _, _, _)
\* the loop of choose_agent_for_task over self.buffers.reputation, from item i
use_reputation_matching(w, self, item, capability, now, i) ==
    IF i > Len(w.buffers[self].reputation.items) THEN w
    ELSE use_reputation_matching(
             IF \E j \in 1..Len(w.buffers[self].reputation.items[i].trust_items) :
                    /\ AgentIsItem(w.buffers[self].reputation.items[i].trust_items[j].agent, item)
                    /\ w.buffers[self].reputation.items[i].trust_items[j].capability = capability
             THEN use_item(w, self, "reputation", i, now)
             ELSE w,
             self, item, capability, now, i + 1)

\* self.sim.es.use_trust(self.buffers.find_trust(item.agent, capability))
use_trust_of(w, self, agent, capability, now) ==
    use_item(w, self, "trust", find_trust(w.buffers[self], agent, capability), now)

\* self.sim.es.use_stereotype(self.buffers.find_stereotype(item.agent, capability))
use_stereotype_of(w, self, agent, capability, now) ==
    use_item(w, self, "stereotype", find_stereotype(w.buffers[self], agent, capability), now)

\* choose_agent_for_task once rng.choice has chosen item: the use hooks
use_chosen(w, self, item, capability, now) ==
    [world |-> use_stereotype_of(
                   use_reputation_matching(
                       use_trust_of(
                           use_item(w, self, "crypto", find_crypto(w.buffers[self], item.agent), now),
                           self, item.agent, capability, now),
                       self, item, capability, now, 1),
                   self, item.agent, capability, now),
     selected |-> item.agent]

\* [item for item in self.buffers.crypto if capability in item.agent.capabilities]
task_options(items, capability) ==
    SelectSeq(items, LAMBDA item : capability \in AgentCapabilities(item.agent))

\* the agent selected (0 for None) and the stores after the use hooks; pick is
\* the draw of rng.choice, and an empty list is its IndexError
choose_agent_for_task(w, self, capability, now, pick) ==
    IF task_options(w.buffers[self].crypto.items, capability) = <<>>
    THEN [world |-> w, selected |-> 0]
    ELSE use_chosen(w, self,
                    task_options(w.buffers[self].crypto.items, capability)[
                        ((pick - 1) % Len(task_options(w.buffers[self].crypto.items, capability))) + 1],
                    capability, now)

\* buffers = copy.copy(self.buffers), see AgentTaskInteraction
perform_interaction(w, self, selected_agent, capability, now) ==
    add_event(w, AgentTaskInteraction(now + EPSILON, self, capability, selected_agent,
                                      w.buffers[self]))

(***************************************************************************)
(* simulation/agent_buffers.py: utility and max_utility.  A value is the   *)
(* pair <<n, d>> of the fraction n / d, and <<0, 0>> is NaN.               *)
(***************************************************************************)
RECURSIVE SumOver(_, _)
\* sum(value[a] for a in s)
SumOver(s, value) == IF s = <<>> THEN 0 ELSE value[Head(s)] + SumOver(Tail(s), value)

Min(a, b) == IF a <= b THEN a ELSE b

\* [a for a in targets if a is not agent and capability in a.capabilities]
UtilityAgents(targets, agent, capability) ==
    SelectSeq(targets, LAMBDA a : a # agent /\ capability \in AgentCapabilities(a))

utility(bufs, agent, capability, targets) ==
    LET Uc(other) == IF find_crypto(bufs, other) # 0 THEN 1 ELSE 0
        Ud(other) == LET i == find_trust(bufs, other, capability)
                     IN IF i = 0 THEN 0
                        ELSE IF total_count(bufs.trust.items[i]) > 0 THEN 1 ELSE 0
        Up(other) == LET items == find_reputation_contents(bufs, other, capability)
                     IN IF \E i \in 1..Len(items) : \E j \in 1..Len(items[i].trust_items) :
                               total_count(items[i].trust_items[j]) > 0
                        THEN 1 ELSE 0
        Us(other) == IF find_stereotype(bufs, other, capability) = 0 THEN 0 ELSE 1
        agents == UtilityAgents(targets, agent, capability)
        U(a) == Uc(a) * (1 + Ud(a) + Up(a) + Us(a))
    IN IF agents = <<>> THEN <<0, 0>>
       ELSE <<SumOver(agents, [a \in {agents[i] : i \in 1..Len(agents)} |-> U(a)]), 4 * Len(agents)>>

max_utility(bufs, agent, capability, targets) ==
    LET agents == UtilityAgents(targets, agent, capability)
        selected_agents == SubSeq(agents, 1, Min(bufs.crypto.length, Len(agents)))
        selected_trust == SubSeq(selected_agents, 1, Min(bufs.trust.length, Len(selected_agents)))
        selected_stereotype ==
            SubSeq(selected_agents, 1, Min(bufs.stereotype.length, Len(selected_agents)))
        selected_reputation ==
            SubSeq(selected_agents, 1, Min(bufs.reputation.length, Len(selected_agents)))
        In(other, s) == \E i \in 1..Len(s) : s[i] = other
        U(other) == IF ~In(other, selected_agents) THEN 0
                    ELSE 1 + (IF In(other, selected_trust) THEN 1 ELSE 0)
                           + (IF In(other, selected_stereotype) THEN 1 ELSE 0)
                           + (IF In(other, selected_reputation) THEN 1 ELSE 0)
    IN IF agents = <<>> THEN <<0, 0>>
       ELSE <<SumOver(agents, [a \in {agents[i] : i \in 1..Len(agents)} |-> U(a)]), 4 * Len(agents)>>

\* AgentBuffers.basic
buffers_basic(bufs) ==
    [kind \in KindSet |-> [i \in 1..Len(bufs[kind].items) |-> basic(kind, bufs[kind].items[i])]]

(***************************************************************************)
(* simulation/metrics.py                                                   *)
(***************************************************************************)
add_buffer_evaluation(m, t, source, capability, outcomes, bufs, u, max_u, target, outcome) ==
    [m EXCEPT !.buffers = Append(@,
        [t |-> t, source |-> source, capability |-> capability, outcomes |-> outcomes,
         buffers |-> bufs, utility |-> u, max_utility |-> max_u, target |-> target,
         outcome |-> outcome])]

add_interaction_performed(m, t, agent, capability) ==
    [m EXCEPT !.interaction_performed = Append(@, <<t, agent, capability>>)]

add_interaction_agent_select_fail(m, t, agent, capability) ==
    [m EXCEPT !.interaction_agent_select_fail = Append(@, <<t, agent, capability>>)]

(***************************************************************************)
(* simulation/events.py: the action of each event class.  ev is the event  *)
(* popped, now is sim.current_time, which run has set to ev.event_time.    *)
(***************************************************************************)
\* _ensure_crypto_exists after the lookup and receive_crypto_information
ensured(w, agent, other, now) ==
    [world |-> use_item(w, agent, "crypto", find_crypto(w.buffers[agent], other), now),
     found |-> w.exc = "none" /\ find_crypto(w.buffers[agent], other) # 0]

\* _ensure_crypto_exists without the call of receive_crypto_information
ensure_crypto_exists_without_receive(w, agent, other, now, rnd) ==
    ensured(w, agent, other, now)

\* BaseCryptoEvent._ensure_crypto_exists
ensure_crypto_exists(w, agent, other, now, rnd) ==
    ensured(IF find_crypto(w.buffers[agent], other) = 0
            THEN receive_crypto_information(w, agent, other, now, rnd)
            ELSE w,
            agent, other, now)

RECURSIVE add_capability_tasks(_, _, _, _)
\* the loop of AgentInit.action over self.agent.capabilities, from capability
add_capability_tasks(w, ev, periods, capability) ==
    IF capability > NumCapabilities THEN w
    ELSE add_capability_tasks(
             add_event(w, AgentCapabilityTask(ev.event_time + periods[capability],
                                              ev.agent, capability)),
             ev, periods, capability + 1)

AgentInit_action(w, ev, periods) ==
    add_capability_tasks(
        add_event(w, AgentTrustDissemination(ev.event_time + EPSILON, ev.agent)),
        ev, periods, 1)

task_chosen_unrecorded(r, ev, now) ==
    IF r.selected # 0
    THEN [perform_interaction(r.world, ev.agent, r.selected, ev.capability, now)
             EXCEPT !.metrics = add_interaction_performed(
                                    @, ev.event_time, ev.agent, ev.capability)]
    ELSE r.world

\* AgentCapabilityTask.action once choose_agent_for_task has answered r
task_chosen(r, ev, now) ==
    IF r.selected # 0
    THEN [perform_interaction(r.world, ev.agent, r.selected, ev.capability, now)
             EXCEPT !.metrics = add_interaction_performed(
                                    @, ev.event_time, ev.agent, ev.capability)]
    ELSE [r.world EXCEPT !.metrics = add_interaction_agent_select_fail(
                                         @, now, ev.agent, ev.capability)]

\* the task event pushed as it is and its time advanced where it lies in the heap
AgentCapabilityTask_action_advanced_in_queue(w, ev, now, pick, period) ==
    [add_event(task_chosen(choose_agent_for_task(w, ev.agent, ev.capability, now, pick), ev, now), ev)
        EXCEPT !.queue = [i \in 1..Len(@) |->
                             IF @[i] = ev THEN [ev EXCEPT !.event_time = @ + period] ELSE @[i]]]

AgentCapabilityTask_action(w, ev, now, pick, period) ==
    add_event(task_chosen(choose_agent_for_task(w, ev.agent, ev.capability, now, pick), ev, now),
              [ev EXCEPT !.event_time = @ + period])

Observations == {"Correct", "Incorrect"}

\* sim.agents
AgentList == [i \in 1..NumAgents |-> i]

\* the agents whose buffer utility is evaluated
utility_targets_of(source, outcomes) ==
    IF utility_targets = "All"
    THEN SelectSeq(AgentList, LAMBDA a : a # source)
    ELSE SelectSeq(AgentList, LAMBDA a : a # source /\ outcomes[a] = "Correct")

\* AgentTaskInteraction.action from the outcomes on: the evaluation of the
\* source's stores, then update_trust_history
interaction_outcome(w, ev, now, outcomes, rnd) ==
    update_trust_history(
        [w EXCEPT !.metrics = add_buffer_evaluation(
            @, now, ev.agent, ev.capability, outcomes, buffers_basic(w.buffers[ev.agent]),
            utility(w.buffers[ev.agent], ev.agent, ev.capability,
                    utility_targets_of(ev.agent, outcomes)),
            max_utility(w.buffers[ev.agent], ev.agent, ev.capability,
                        utility_targets_of(ev.agent, outcomes)),
            ev.other, outcomes[ev.other])],
        ev.agent, ev.other, ev.capability, outcomes[ev.other], now, rnd)

\* AgentTaskInteraction.action once the target has looked for the source's
\* crypto: the target's outcome is Incorrect if it has none
interaction_theirs(theirs, ev, now, drawn, rnd) ==
    IF theirs.world.exc # "none" THEN theirs.world
    ELSE interaction_outcome(
             theirs.world, ev, now,
             [a \in Agents \ {ev.agent} |->
                 IF a = ev.other /\ ~theirs.found THEN "Incorrect" ELSE drawn[a]],
             rnd)

\* AgentTaskInteraction.action once the source has looked for the target's
\* crypto: assert our_crypto
interaction_ours(ours, ev, now, drawn, rnd) ==
    IF ours.world.exc # "none" THEN ours.world
    ELSE IF ~ours.found THEN Raise(ours.world, "AssertionError")
    ELSE interaction_theirs(
             ensure_crypto_exists(ours.world, ev.other, ev.agent, now, rnd[2]),
             ev, now, drawn, rnd[3])

\* drawn[a] is what a's behaviour answers (next_interaction for the target,
\* peek_interaction for the others); rnd are the draws of the three add calls
AgentTaskInteraction_action(w, ev, now, drawn, rnd) ==
    interaction_ours(ensure_crypto_exists(w, ev.agent, ev.other, now, rnd[1]),
                     ev, now, drawn, rnd)

RECURSIVE disseminate(_, _, _, _, _)
\* the loop of AgentTrustDissemination.action over sim.agents, from agent
disseminate(w, ev, now, rnd, agent) ==
    IF agent > NumAgents THEN w
    ELSE disseminate(
             IF agent # ev.agent
             THEN receive_trust_information(w, agent, ev.agent, now, rnd[agent])
             ELSE w,
             ev, now, rnd, agent + 1)

\* the dissemination that is not added again
AgentTrustDissemination_action_once(w, ev, now, rnd, period) ==
    disseminate(w, ev, now, rnd, 1)

AgentTrustDissemination_action(w, ev, now, rnd, period) ==
    add_event(disseminate(w, ev, now, rnd, 1), [ev EXCEPT !.event_time = @ + period])

AgentCryptoRequest_action_own_key(w, ev, now, rnd) ==
    IF find_crypto(w.buffers[ev.agent], ev.agent) # 0 THEN w
    ELSE add_to_buffers(w, ev.agent, "crypto", CryptoItem(ev.agent), now, rnd)

AgentCryptoRequest_action(w, ev, now, rnd) ==
    receive_crypto_information(w, ev.agent, ev.other, now, rnd)

RECURSIVE receive_stereotypes(_, _, _, _, _)
\* the loop of AgentStereotypeRequest.action over self.agent.capabilities
receive_stereotypes(w, ev, now, rnd, capability) ==
    IF capability > NumCapabilities THEN w
    ELSE receive_stereotypes(
             receive_stereotype_information(w, ev.agent, ev.other, capability, now,
                                            rnd[capability]),
             ev, now, rnd, capability + 1)

AgentStereotypeRequest_action(w, ev, now, rnd) == receive_stereotypes(w, ev, now, rnd, 1)

(***************************************************************************)
(* simulation/simulator.py: Simulator.run.  Start is the loop that queues  *)
(* an AgentInit per agent; every other action is one turn of the while     *)
(* loop, the pop, the two checks and the whole action of the event popped. *)
(***************************************************************************)
\* the values the rng draws: rng.uniform(0, max_start_delay), the expovariate
\* periods (positive, and here longer than EPSILON, which is small against
\* every mean period), and the choice of a Random eviction in a store of this
\* kind (run_simulation.py gives every agent the same capacities)
StartDelays == 0..MaxStartDelay

Periods == (EPSILON + 1)..MaxPeriod

EvictionDraws(kind) == Draws(es, buffers[1][kind].length)

Init ==
    /\ es \in Strategies
    /\ utility_targets \in {"All", "Good"}
    /\ \E c \in 0..MaxRunCapacity :
          buffers = [a \in Agents |-> AgentBuffers(c, c, c, c, c, 0)]
    /\ current_time = 0
    /\ queue = <<>>
    /\ popped = NoEvent
    /\ metrics = Metrics
    /\ status = "init"
    /\ serial = 0
    /\ calls = <<>>
    /\ ops = 0
    /\ capability_behaviour = NoBehaviours

RECURSIVE add_start_events(_, _, _)
\* for agent in self.agents: self.add_event(AgentInit(delay, agent))
add_start_events(heap, delays, agent) ==
    IF agent > NumAgents THEN heap
    ELSE add_start_events(heappush(heap, AgentInit(delays[agent], agent)), delays, agent + 1)

Start ==
    /\ status = "init"
    /\ \E delays \in [Agents -> StartDelays] :
          queue' = add_start_events(queue, delays, 1)
    /\ status' = "running"
    /\ calls' = <<>>
    /\ UNCHANGED <<es, utility_targets, capability_behaviour, buffers, current_time, popped, metrics, serial, ops>>

pop_front_unchecked(heap, now) == [item |-> Head(heap), queue |-> Tail(heap), exc |-> "none"]

\* item = heapq.heappop(self.queue); assert item.event_time >= self.current_time
run_pop(heap, now) ==
    [item |-> heappop(heap).item, queue |-> heappop(heap).heap,
     exc |-> IF heappop(heap).item.event_time >= now THEN "none" ELSE "AssertionError"]

finished_never(item) == FALSE

\* if item.event_time > self.duration: break
finished(item) == item.event_time > Duration

\* the loop pops an event of this class and goes on to run its action
Executes(type) ==
    /\ status = "running"
    /\ queue # <<>>
    /\ run_pop(queue, current_time).exc = "none"
    /\ run_pop(queue, current_time).item.type = type
    /\ ~finished(run_pop(queue, current_time).item)

\* the world the action of the popped event starts in
Popped == World(buffers, run_pop(queue, current_time).queue, metrics, serial, <<>>)

\* the state the action of ev leaves, normally or by an exception
Executed(ev, w) ==
    /\ current_time' = ev.event_time
    /\ popped' = ev
    /\ buffers' = w.buffers
    /\ queue' = w.queue
    /\ metrics' = w.metrics
    /\ serial' = w.serial
    /\ calls' = w.calls
    /\ status' = IF w.exc = "none" THEN "running" ELSE w.exc
    /\ UNCHANGED <<es, utility_targets, capability_behaviour, ops>>

ExecAgentInit ==
    /\ Executes("AgentInit")
    /\ LET ev == run_pop(queue, current_time).item
       IN \E periods \in [Capabilities -> Periods] :
             Executed(ev, AgentInit_action(Popped, ev, periods))

ExecAgentCapabilityTask ==
    /\ Executes("AgentCapabilityTask")
    /\ LET ev == run_pop(queue, current_time).item
           n == Len(buffers[ev.agent].crypto.items)
       IN \E pick \in 1..(IF n = 0 THEN 1 ELSE n), period \in Periods :
             Executed(ev, AgentCapabilityTask_action(Popped, ev, ev.event_time, pick, period))

ExecAgentTaskInteraction ==
    /\ Executes("AgentTaskInteraction")
    /\ LET ev == run_pop(queue, current_time).item
       IN \E drawn \in [Agents \ {ev.agent} -> Observations] :
          \E rc1 \in EvictionDraws("crypto"), rc2 \in EvictionDraws("crypto"),
             rt \in EvictionDraws("trust") :
             Executed(ev, AgentTaskInteraction_action(Popped, ev, ev.event_time, drawn,
                                                      <<rc1, rc2, rt>>))

ExecAgentTrustDissemination ==
    /\ Executes("AgentTrustDissemination")
    /\ LET ev == run_pop(queue, current_time).item
       IN \E rnd \in [Agents -> EvictionDraws("reputation")], period \in Periods :
             Executed(ev, AgentTrustDissemination_action(Popped, ev, ev.event_time, rnd, period))

ExecAgentCryptoRequest ==
    /\ Executes("AgentCryptoRequest")
    /\ LET ev == run_pop(queue, current_time).item
       IN \E rnd \in EvictionDraws("crypto") :
             Executed(ev, AgentCryptoRequest_action(Popped, ev, ev.event_time, rnd))

ExecAgentStereotypeRequest ==
    /\ Executes("AgentStereotypeRequest")
    /\ LET ev == run_pop(queue, current_time).item
       IN \E rnd \in [Capabilities -> EvictionDraws("stereotype")] :
             Executed(ev, AgentStereotypeRequest_action(Popped, ev, ev.event_time, rnd))

\* the loop ends: the queue is empty, the assert fails, or the event popped
\* lies beyond the duration
RunStop ==
    /\ status = "running"
    /\ IF queue = <<>>
       THEN /\ status' = "stopped"
            /\ UNCHANGED <<queue, popped>>
       ELSE /\ run_pop(queue, current_time).exc # "none"
               \/ finished(run_pop(queue, current_time).item)
            /\ status' = IF run_pop(queue, current_time).exc # "none"
                         THEN run_pop(queue, current_time).exc
                         ELSE "stopped"
            /\ queue' = run_pop(queue, current_time).queue
            /\ popped' = run_pop(queue, current_time).item
    /\ calls' = <<>>
    /\ UNCHANGED <<es, utility_targets, capability_behaviour, buffers, current_time, metrics, serial, ops>>

Next ==
    \/ Start
    \/ ExecAgentInit
    \/ ExecAgentCapabilityTask
    \/ ExecAgentTaskInteraction
    \/ ExecAgentTrustDissemination
    \/ ExecAgentCryptoRequest
    \/ ExecAgentStereotypeRequest
    \/ RunStop

Spec == Init /\ [][Next]_vars

(***************************************************************************)
(* The strategy harness: the hooks of one eviction strategy on the stores  *)
(* of one agent.  Any sequence of add_X calls (whose last statement is the *)
(* strategy's add hook), use hooks on a stored item or on None, clock      *)
(* ticks, and choose_X calls on the contents of a store, empty or not.     *)
(* ops counts the calls.                                                   *)
(***************************************************************************)
MaxEsOps == 4

\* the items the harness adds, two per kind
EsItem(kind, peer) ==
    CASE kind = "crypto" -> CryptoItem(peer)
      [] kind = "trust" -> TrustItem(peer, peer, 1)
      [] kind = "reputation" -> ReputationItem(peer, <<>>)
      [] kind = "stereotype" -> StereotypeItem(peer, 1)
      [] kind = "cr" -> ChallengeResponseItem(peer, TRUE)

\* the item the add_X call that asks for a victim wants to store
NewItem(kind) == EsItem(kind, CHOOSE peer \in Peers : TRUE)

\* the record of one es.use_X call; idx = 0 is the call with None
UseCall(kind, owner, bufs, idx, after) ==
    [fn |-> "use", kind |-> kind, owner |-> owner, idx |-> idx,
     before |-> bufs, after |-> after, exc |-> "none"]

\* the record of one es.choose_X call
ChooseCall(kind, owner, bufs, new_item, rnd, r) ==
    [fn |-> "choose", kind |-> kind, owner |-> owner, item |-> new_item, rnd |-> rnd,
     before |-> bufs, after |-> bufs, victim |-> r.idx, exc |-> r.exc]

EsInit ==
    /\ es \in Strategies
    /\ \E c \in 1..MaxCapacity :
          buffers = [a \in Agents |-> AgentBuffers(c, c, c, c, c, 0)]
    /\ utility_targets = "All"
    /\ current_time = 0
    /\ queue = <<>>
    /\ popped = NoEvent
    /\ metrics = Metrics
    /\ status = "strategy"
    /\ serial = 0
    /\ calls = <<>>
    /\ ops = 0
    /\ capability_behaviour = NoBehaviours

\* what a call on the owner's stores leaves
EsCalled(w) ==
    /\ buffers' = w.buffers
    /\ metrics' = w.metrics
    /\ calls' = w.calls
    /\ ops' = ops + 1
    /\ UNCHANGED <<es, utility_targets, capability_behaviour, popped, current_time, queue, status, serial>>

\* self.buffers.add_X(es, item), after the lookup that found no such item
EsAdd ==
    /\ ops < MaxEsOps
    /\ \E kind \in KindSet : \E peer \in Peers :
          /\ \A i \in 1..Len(buffers[Owner][kind].items) :
                 buffers[Owner][kind].items[i].agent # peer
          /\ \E rnd \in Draws(es, Len(buffers[Owner][kind].items)) :
                 EsCalled(add_to_buffers(World(buffers, queue, metrics, serial, <<>>),
                                         Owner, kind, EsItem(kind, peer), current_time, rnd))

\* es.use_X(item) with a stored item or with None
EsUse ==
    /\ ops < MaxEsOps
    /\ \E kind \in KindSet : \E idx \in 0..Len(buffers[Owner][kind].items) :
          EsCalled([use_item(World(buffers, queue, metrics, serial, <<>>),
                             Owner, kind, idx, current_time)
                       EXCEPT !.calls = <<UseCall(kind, Owner, buffers[Owner], idx,
                                                  use_item(World(buffers, queue, metrics, serial, <<>>),
                                                           Owner, kind, idx, current_time).buffers[Owner])>>])

\* es.choose_X(self.X, self, item) on the contents of a store
EsChoose ==
    /\ ops < MaxEsOps
    /\ \E kind \in KindSet : \E rnd \in Draws(es, Len(buffers[Owner][kind].items)) :
          EsCalled([World(buffers, queue, metrics, serial, <<>>)
                       EXCEPT !.calls = <<ChooseCall(kind, Owner, buffers[Owner],
                                                     NewItem(kind), rnd,
                                                     choose(es, kind, buffers[Owner][kind].items,
                                                            buffers[Owner], NewItem(kind), rnd))>>])

\* the clock of the simulator advances between the calls
EsTick ==
    /\ current_time < MaxTime
    /\ current_time' = current_time + 1
    /\ calls' = <<>>
    /\ UNCHANGED <<es, utility_targets, capability_behaviour, popped, buffers, queue, metrics, status, serial, ops>>

EsNext ==
    \/ EsAdd
    \/ EsUse
    \/ EsChoose
    \/ EsTick

SpecEs == EsInit /\ [][EsNext]_vars

(***************************************************************************)
(* The trust-score harness: choose_X of Chen2016 and FiveBand on a full    *)
(* store.  The trust store holds 1..MaxScored items about distinct agents, *)
(* each with correct and incorrect counts from ScoreCounts and a stamp     *)
(* from 0..MaxStamp; the other stores hold items about the same agents     *)
(* with the same stamps.  Stores of up to MaxShuffled items hold the       *)
(* scores in any order, longer ones from the lowest to the highest.        *)
(***************************************************************************)
MaxScored == 5

MaxShuffled == 3

MaxStamp == 1

\* (correct_count, incorrect_count): no history, 0.1, 0.3, 0.7 and 0.9
ScoreCounts == {<<0, 0>>, <<1, 9>>, <<3, 7>>, <<7, 3>>, <<9, 1>>}

\* the i-th item of the store of this kind, about agent i + 1
ScoredItem(kind, i, counts, stamp) ==
    IF kind = "trust"
    THEN [TrustItem(i, i + 1, 1) EXCEPT !.correct_count = counts[1],
                                        !.incorrect_count = counts[2],
                                        !.eviction_data = <<stamp>>]
    ELSE [EsItem(kind, i + 1) EXCEPT !.eviction_data = <<stamp>>]

ScoredList(kind, n, counts, stamps) ==
    [length |-> n, frozen |-> FALSE,
     items |-> [i \in 1..n |-> ScoredItem(kind, i, counts[i], stamps[i])]]

ScoredBuffers(n, counts, stamps) ==
    [f \in DOMAIN AgentBuffers(n, n, n, n, n, 0) |->
        IF f \in KindSet THEN ScoredList(f, n, counts, stamps)
        ELSE AgentBuffers(n, n, n, n, n, 0)[f]]

ScoreInit ==
    /\ es \in {"Chen2016", "FiveBand"}
    /\ \E n \in 1..MaxScored :
          \E counts \in [1..n -> ScoreCounts], stamps \in [1..n -> 0..MaxStamp] :
              /\ n > MaxShuffled =>
                    \A i \in 1..(n - 1) :
                        Leq(brs_trust(ScoredItem("trust", i, counts[i], 0)),
                            brs_trust(ScoredItem("trust", i + 1, counts[i + 1], 0)))
              /\ buffers = [a \in Agents |-> IF a = Owner THEN ScoredBuffers(n, counts, stamps)
                                              ELSE AgentBuffers(n, n, n, n, n, 0)]
    /\ utility_targets = "All"
    /\ current_time = MaxStamp
    /\ queue = <<>>
    /\ popped = NoEvent
    /\ metrics = Metrics
    /\ status = "scores"
    /\ serial = 0
    /\ calls = <<>>
    /\ ops = 0
    /\ capability_behaviour = NoBehaviours

\* es.choose_X(self.X, self, item) on the store of this kind
ScoreChoose(kind) ==
    /\ ops = 0
    /\ calls' = <<ChooseCall(kind, Owner, buffers[Owner], NewItem(kind), 1,
                             choose(es, kind, buffers[Owner][kind].items,
                                    buffers[Owner], NewItem(kind), 1))>>
    /\ ops' = 1
    /\ UNCHANGED <<es, utility_targets, capability_behaviour, buffers, current_time, queue, popped, metrics,
                   status, serial>>

ScoreChooseTrust == ScoreChoose("trust")

ScoreChooseOther == \E kind \in KindSet \ {"trust"} : ScoreChoose(kind)

ScoreNext ==
    \/ ScoreChooseTrust
    \/ ScoreChooseOther

SpecScore == ScoreInit /\ [][ScoreNext]_vars

(***************************************************************************)
(* combine_results.py: CombinedMetrics.update, as far as normed_utilities. *)
(* A float is the pair <<n, d>> of utility; the quotient of two is a pair  *)
(* again, NaN when either is, and a division by 0.0 raises.                *)
(***************************************************************************)
NaN == <<0, 0>>

isnan(x) == x[2] = 0

\* b.utility / b.max_utility
quotient(u, m) == IF isnan(u) \/ isnan(m) THEN NaN ELSE <<u[1] * m[2], u[2] * m[1]>>

CombinedMetrics == [normed_utilities |-> <<>>, exc |-> "none"]

RECURSIVE quotients(_)
\* [b.utility / b.max_utility for b in evaluations]
quotients(evaluations) ==
    IF evaluations = <<>> THEN <<>>
    ELSE <<quotient(Head(evaluations).utility, Head(evaluations).max_utility)>>
         \o quotients(Tail(evaluations))

\* the evaluations whose quotient is not computable
divides_by_zero(evaluations) ==
    \E i \in 1..Len(evaluations) :
        ~isnan(evaluations[i].max_utility) /\ evaluations[i].max_utility[1] = 0

CombinedMetrics_extended(self, evaluations) ==
    IF divides_by_zero(evaluations) THEN [self EXCEPT !.exc = "ZeroDivisionError"]
    ELSE [self EXCEPT !.normed_utilities = @ \o quotients(evaluations)]

CombinedMetrics_update_unfiltered(self, m) == CombinedMetrics_extended(self, m.buffers)

\* CombinedMetrics.update: normed_utilities.extend([... if not np.isnan(b.utility)])
CombinedMetrics_update(self, m) ==
    CombinedMetrics_extended(self, SelectSeq(m.buffers, LAMBDA b : ~isnan(b.utility)))

(***************************************************************************)
(* The cross-store harness: choose_X of NotInOther, MinNotInOther, CapPri  *)
(* and Cuckoo on a full store of two items, in an AgentBuffers whose other *)
(* stores hold no item or one.  The items are about the peers, for any     *)
(* capability; the snapshot of a ReputationItem is empty or holds a        *)
(* TrustItem of the sender about the other peer.  Under Cuckoo the badlist *)
(* answers contains() for any set of the peers.                            *)
(***************************************************************************)
FourKinds == {"crypto", "trust", "reputation", "stereotype"}

KnowStrategies == {"NotInOther", "MinNotInOther", "CapPri", "Cuckoo"}

\* the items a store of this kind may hold, before the add hook
KnowItems(kind) ==
    CASE kind = "crypto" -> {CryptoItem(a) : a \in Peers}
      [] kind = "trust" -> {TrustItem(0, a, c) : a \in Peers, c \in Capabilities}
      [] kind = "reputation" ->
            {ReputationItem(a, <<>>) : a \in Peers}
            \cup {ReputationItem(x[1], <<add_common("LRU", TrustItem(0, x[2], x[3]), 0)>>) :
                     x \in {y \in Peers \X Peers \X Capabilities : y[1] # y[2]}}
      [] kind = "stereotype" -> {StereotypeItem(a, c) : a \in Peers, c \in Capabilities}

\* what find_X looks an item of this kind up by
KnowKey(kind, item) ==
    IF kind \in {"trust", "stereotype"} THEN <<item.agent, item.capability>> ELSE <<item.agent>>

\* the stores of this kind: two items with different keys in the store that
\* choose_X is called on, no item or one in the others
KnowStores(kind, chosen) ==
    IF kind = chosen
    THEN {<<[x[1] EXCEPT !.eviction_data = <<x[3]>>], [x[2] EXCEPT !.eviction_data = <<x[4]>>]>> :
             x \in {y \in KnowItems(kind) \X KnowItems(kind) \X (0..MaxStamp) \X (0..MaxStamp) :
                      KnowKey(kind, y[1]) # KnowKey(kind, y[2])}}
    ELSE {<<>>} \cup {<<[a EXCEPT !.eviction_data = <<0>>]>> : a \in KnowItems(kind)}

KnowBuffers(crypto, trust, reputation, stereotype, badlist) ==
    [crypto |-> [BoundedList(2) EXCEPT !.items = crypto],
     trust |-> [BoundedList(2) EXCEPT !.items = trust],
     reputation |-> [BoundedList(2) EXCEPT !.items = reputation],
     stereotype |-> [BoundedList(2) EXCEPT !.items = stereotype],
     cr |-> BoundedList(2),
     badlist |-> badlist]

KnowInit ==
    /\ es \in KnowStrategies
    /\ \E chosen \in FourKinds :
          \E crypto \in KnowStores("crypto", chosen), trust \in KnowStores("trust", chosen),
             reputation \in KnowStores("reputation", chosen),
             stereotype \in KnowStores("stereotype", chosen),
             badlist \in IF es = "Cuckoo" THEN {<<bad>> : bad \in SUBSET Peers} ELSE {<<>>} :
              buffers = [a \in Agents |->
                            IF a = Owner
                            THEN KnowBuffers(crypto, trust, reputation, stereotype, badlist)
                            ELSE KnowBuffers(<<>>, <<>>, <<>>, <<>>, badlist)]
    /\ utility_targets = "All"
    /\ current_time = MaxStamp
    /\ queue = <<>>
    /\ popped = NoEvent
    /\ metrics = Metrics
    /\ status = "choice"
    /\ serial = 0
    /\ calls = <<>>
    /\ ops = 0
    /\ capability_behaviour = NoBehaviours

\* es.choose_X(self.X, self, item) on the full store
KnowChoose ==
    /\ ops = 0
    /\ \E kind \in FourKinds :
          /\ check_item_bound(buffers[Owner][kind])
          /\ calls' = <<ChooseCall(kind, Owner, buffers[Owner], NewItem(kind), 1,
                                   choose(es, kind, buffers[Owner][kind].items,
                                          buffers[Owner], NewItem(kind), 1))>>
    /\ ops' = 1
    /\ UNCHANGED <<es, utility_targets, capability_behaviour, buffers, current_time, queue, popped, metrics,
                   status, serial>>

KnowNext == KnowChoose

SpecKnow == KnowInit /\ [][KnowNext]_vars

(***************************************************************************)
(* The utility harness: the buffer evaluations of AgentTaskInteraction for *)
(* one source among three agents, and the merge of the metrics recorded.   *)
(* The source's stores are as a run leaves them at an evaluation: the      *)
(* crypto store holds the target, every TrustItem has an outcome, and the  *)
(* snapshot of a ReputationItem is the sender's trust store, with no item  *)
(* about the sender.                                                       *)
(***************************************************************************)
MaxEvals == 2

\* sim.agents
SimAgents == <<Owner>> \o [i \in 1..NumPeers |-> i + 1]

\* a TrustItem after record(Correct)
RecordedTrustItem(agent, capability) ==
    [TrustItem(0, agent, capability) EXCEPT !.correct_count = 1]

UtilCrypto == {<<CryptoItem(2)>>, <<CryptoItem(3)>>, <<CryptoItem(2), CryptoItem(3)>>}

UtilTrust == {<<>>, <<RecordedTrustItem(2, 1)>>, <<RecordedTrustItem(3, 2)>>}

UtilStereotype == {<<>>, <<StereotypeItem(2, 2)>>, <<StereotypeItem(3, 1)>>}

\* the trust store of a sender, as receive_trust_information copies it
UtilSnapshots(sender) ==
    {<<>>, <<RecordedTrustItem(Owner, 1)>>}
    \cup {<<RecordedTrustItem(a, c)>> : a \in Peers \ {sender}, c \in Capabilities}

UtilReputation ==
    {<<>>}
    \cup {<<ReputationItem(2, s)>> : s \in UtilSnapshots(2)}
    \cup {<<ReputationItem(3, s)>> : s \in UtilSnapshots(3)}
    \cup {<<ReputationItem(2, s), ReputationItem(3, t)>> :
             s \in UtilSnapshots(2), t \in UtilSnapshots(3)}

UtilInit ==
    /\ es = "None"
    /\ utility_targets \in {"All", "Good"}
    /\ \E crypto \in UtilCrypto, trust \in UtilTrust, reputation \in UtilReputation,
          stereotype \in UtilStereotype :
              buffers = [a \in Agents |->
                            IF a = Owner
                            THEN KnowBuffers(crypto, trust, reputation, stereotype, <<>>)
                            ELSE KnowBuffers(<<>>, <<>>, <<>>, <<>>, <<>>)]
    /\ current_time = 0
    /\ queue = <<>>
    /\ popped = NoEvent
    /\ metrics = Metrics
    /\ status = "evaluating"
    /\ serial = 0
    /\ calls = <<>>
    /\ ops = 0
    /\ capability_behaviour = NoBehaviours

\* utility_targets of AgentTaskInteraction.action
UtilTargets(source, outcomes) ==
    IF utility_targets = "All"
    THEN SelectSeq(SimAgents, LAMBDA a : a # source)
    ELSE SelectSeq(SimAgents, LAMBDA a : a # source /\ outcomes[a] = "Correct")

\* AgentTaskInteraction.action from the outcomes to add_buffer_evaluation, the
\* target being an agent of the source's crypto store
UtilEvaluate ==
    /\ status = "evaluating"
    /\ ops < MaxEvals
    /\ \E capability \in Capabilities, outcomes \in [Peers -> Observations] :
          metrics' = add_buffer_evaluation(
              metrics, current_time, Owner, capability, outcomes,
              buffers_basic(buffers[Owner]),
              utility(buffers[Owner], Owner, capability, UtilTargets(Owner, outcomes)),
              max_utility(buffers[Owner], Owner, capability, UtilTargets(Owner, outcomes)),
              buffers[Owner].crypto.items[1].agent,
              outcomes[buffers[Owner].crypto.items[1].agent])
    /\ ops' = ops + 1
    /\ calls' = <<>>
    /\ UNCHANGED <<es, utility_targets, capability_behaviour, buffers, current_time, queue, popped, status, serial>>

\* the record of CombinedMetrics().update(m)
UpdateCall(m, r) ==
    [fn |-> "update", m |-> m, normed_utilities |-> r.normed_utilities, exc |-> r.exc]

\* combine_results.fn on the metrics of the run
UtilCombine ==
    /\ status = "evaluating"
    /\ ops > 0
    /\ calls' = <<UpdateCall(metrics, CombinedMetrics_update(CombinedMetrics, metrics))>>
    /\ status' = "combined"
    /\ UNCHANGED <<es, utility_targets, capability_behaviour, buffers, current_time, queue, popped, metrics,
                   serial, ops>>

UtilNext == UtilEvaluate \/ UtilCombine

SpecUtil == UtilInit /\ [][UtilNext]_vars

(***************************************************************************)
(* combine_results.py: the parameters of the merged artifacts.  An args    *)
(* namespace is a record of the parameters a run was started with, in the  *)
(* order the parser of run_simulation.py adds them; seed is <<s>> or <<>>  *)
(* for None.  An artifact is the pickle of a run: its args and its buffer  *)
(* evaluations, or a truncated file whose pickle.load raises EOFError.     *)
(* The files of the group fn is called with are the sequence in queue.     *)
(***************************************************************************)
MaxFiles == 3

ArgKeys == <<"agents", "max_crypto_buf", "eviction_strategy", "seed">>

Namespaces ==
    [agents : {NumAgents}, max_crypto_buf : 1..2, eviction_strategy : {"LRU", "FIFO"},
     seed : {<<s>> : s \in 0..1}]

\* the artifact of a run with these args
Artifact(args, eof) ==
    [args |-> args, eof |-> eof,
     buffers |-> <<[utility |-> <<args.seed[1] + 1, 1>>, max_utility |-> <<2, 1>>]>>]

Artifacts == {Artifact(args, eof) : args \in Namespaces, eof \in BOOLEAN}

\* for (k, v) in self_args_dict: the keys of the dict, each unpacked into two
unpacks(keys) == \A i \in 1..Len(keys) : Len(keys[i]) = 2

\* ParametersDifferError.__init__: the exception the raise statement raises and
\* the fields its message names
ParametersDifferError(self_args, m_args) ==
    IF unpacks(ArgKeys)
    THEN [exc |-> "ParametersDifferError",
          message |-> {ArgKeys[i] : i \in {j \in 1..Len(ArgKeys) :
                                              self_args[ArgKeys[j]] # m_args[ArgKeys[j]]}}]
    ELSE [exc |-> "ValueError", message |-> {}]

CombinedMetricsOfGroup == [normed_utilities |-> <<>>, exc |-> "none", args |-> <<>>, message |-> {}]

\* m.args.seed = None
without_seed(args) == [args EXCEPT !.seed = <<>>]

\* CombinedMetrics.update, with pickle.load of the artifact before it
CombinedMetrics_update_args(self, m) ==
    IF m.eof THEN self
    ELSE IF self.args = <<>>
    THEN CombinedMetrics_update([self EXCEPT !.args = without_seed(m.args)], m)
    ELSE IF self.args # without_seed(m.args)
    THEN [self EXCEPT !.exc = ParametersDifferError(self.args, without_seed(m.args)).exc,
                      !.message = ParametersDifferError(self.args, without_seed(m.args)).message]
    ELSE CombinedMetrics_update(self, m)

RECURSIVE merged(_, _)
\* the loop of fn over the files of a group, left at the first exception
merged(m, files) ==
    IF files = <<>> \/ m.exc # "none" THEN m
    ELSE merged(CombinedMetrics_update_args(m, Head(files)), Tail(files))

\* the record of fn(group): the exception it leaves with and what it dumped
FnCall(files, m) ==
    [fn |-> "fn", files |-> files, exc |-> m.exc, message |-> m.message,
     written |-> IF m.exc = "none" THEN <<m>> ELSE <<>>]

MergeInit ==
    /\ es = "None"
    /\ utility_targets = "All"
    /\ capability_behaviour = NoBehaviours
    /\ buffers = [a \in Agents |-> KnowBuffers(<<>>, <<>>, <<>>, <<>>, <<>>)]
    /\ current_time = 0
    /\ \E n \in 1..MaxFiles : queue \in [1..n -> Artifacts]
    /\ popped = NoEvent
    /\ metrics = Metrics
    /\ status = "merging"
    /\ serial = 0
    /\ calls = <<>>
    /\ ops = 0

\* combine_results.fn on the files of one group
MergeFn ==
    /\ status = "merging"
    /\ calls' = <<FnCall(queue, merged(CombinedMetricsOfGroup, queue))>>
    /\ status' = IF merged(CombinedMetricsOfGroup, queue).exc = "none" THEN "merged"
                 ELSE merged(CombinedMetricsOfGroup, queue).exc
    /\ UNCHANGED <<es, utility_targets, capability_behaviour, buffers, current_time, queue,
                   popped, metrics, serial, ops>>

SpecMerge == MergeInit /\ [][MergeFn]_vars

(***************************************************************************)
(* The selection harness: choose_agent_for_task of an agent whose stores   *)
(* hold items about two peers, stamped by the add hook at time 0.  The     *)
(* owner's TrustItem is object 1; the snapshot of a ReputationItem holds   *)
(* the sender's TrustItem about the other peer, object 2 or 3.  Each call  *)
(* is made by a task at the next tick.                                     *)
(***************************************************************************)
MaxChoices == 2

UseStrategies == {"LRU", "MRU"}

TaskTrust == {<<>>} \cup {<<TrustItem(1, a, c)>> : a \in Peers, c \in Capabilities}

TaskSnapshots(sender) ==
    {<<>>} \cup {<<TrustItem(sender, a, c)>> : a \in Peers \ {sender}, c \in Capabilities}

TaskReputation ==
    {<<>>}
    \cup {<<ReputationItem(2, s)>> : s \in TaskSnapshots(2)}
    \cup {<<ReputationItem(3, s)>> : s \in TaskSnapshots(3)}
    \cup {<<ReputationItem(2, s), ReputationItem(3, t)>> :
             s \in TaskSnapshots(2), t \in TaskSnapshots(3)}

TaskStereotype == {<<>>} \cup {<<StereotypeItem(a, c)>> : a \in Peers, c \in Capabilities}

\* the items after es.add_X at time 0
AddedAtStart(strategy, items) == [i \in 1..Len(items) |-> add_common(strategy, items[i], 0)]

TaskInit ==
    /\ es \in UseStrategies
    /\ utility_targets = "All"
    /\ capability_behaviour = NoBehaviours
    /\ \E crypto \in UtilCrypto, trust \in TaskTrust, reputation \in TaskReputation,
          stereotype \in TaskStereotype :
              buffers = [a \in Agents |->
                            IF a = Owner
                            THEN KnowBuffers(AddedAtStart(es, crypto), AddedAtStart(es, trust),
                                             AddedAtStart(es, reputation),
                                             AddedAtStart(es, stereotype), <<>>)
                            ELSE KnowBuffers(<<>>, <<>>, <<>>, <<>>, <<>>)]
    /\ current_time = 0
    /\ queue = <<>>
    /\ popped = NoEvent
    /\ metrics = Metrics
    /\ status = "choosing"
    /\ serial = 0
    /\ calls = <<>>
    /\ ops = 0

\* the record of self.choose_agent_for_task(capability)
TaskCall(capability, before, r) ==
    [fn |-> "choose_agent_for_task", capability |-> capability, before |-> before,
     selected |-> r.selected]

\* AgentCapabilityTask.action as far as choose_agent_for_task
TaskChoose ==
    /\ status = "choosing"
    /\ ops < MaxChoices
    /\ current_time' = current_time + 1
    /\ \E capability \in Capabilities, pick \in 1..Len(buffers[Owner].crypto.items) :
          /\ buffers' = choose_agent_for_task(
                            World(buffers, queue, metrics, serial, <<>>),
                            Owner, capability, current_time', pick).world.buffers
          /\ calls' = <<TaskCall(capability, buffers[Owner],
                                 choose_agent_for_task(
                                     World(buffers, queue, metrics, serial, <<>>),
                                     Owner, capability, current_time', pick))>>
    /\ ops' = ops + 1
    /\ UNCHANGED <<es, utility_targets, capability_behaviour, queue, popped, metrics, status,
                   serial>>

SpecTask == TaskInit /\ [][TaskChoose]_vars

(***************************************************************************)
(* simulation/agent_choose_behaviour.py: CuckooAgentChooseBehaviour.  The  *)
(* two cuckoo filters of AgentBuffers are <<>> for None and <<s>> for a    *)
(* filter, s being the agents whose eui64 the filter answers contains()    *)
(* for.  The harness calls choose_agent_for_task on a crypto store about   *)
(* the peers, for any two filters.                                         *)
(***************************************************************************)
\* AgentBuffers of an agent configured with cuckoo_max_capacity > 0
CuckooBuffers(crypto, badlist, encountered) ==
    [crypto |-> [BoundedList(2) EXCEPT !.items = crypto],
     trust |-> BoundedList(2),
     reputation |-> BoundedList(2),
     stereotype |-> BoundedList(2),
     cr |-> BoundedList(2),
     badlist |-> <<badlist>>,
     encountered |-> <<encountered>>]

\* not badlist.contains(eui64) and encountered.contains(eui64)
seen_and_good(options, bufs) ==
    SelectSeq(options, LAMBDA item : item.agent \notin bufs.badlist[1]
                                     /\ item.agent \in bufs.encountered[1])

\* not badlist.contains(eui64) and not encountered.contains(eui64)
not_seen(options, bufs) ==
    SelectSeq(options, LAMBDA item : item.agent \notin bufs.badlist[1]
                                     /\ item.agent \notin bufs.encountered[1])

\* the fallback taken among all the items of the crypto store
fallback_of_all(all, options, bufs) ==
    IF options = <<>> THEN not_seen(all, bufs) ELSE options

\* if not options: options = [item for item in options if ...]
fallback(all, options, bufs) ==
    IF options = <<>> THEN not_seen(options, bufs) ELSE options

\* rng.choice(options), 0 for the None returned on IndexError
choice(options, pick) ==
    IF options = <<>> THEN 0 ELSE options[((pick - 1) % Len(options)) + 1].agent

\* CuckooAgentChooseBehaviour.choose_agent_for_task: the agent of the item
\* returned, 0 for None
Cuckoo_choose_agent_for_task(bufs, capability, pick) ==
    IF bufs.badlist = <<>> \/ bufs.encountered = <<>>
    THEN [exc |-> "AssertionError", selected |-> 0]
    ELSE IF task_options(bufs.crypto.items, capability) = <<>>
    THEN [exc |-> "none", selected |-> 0]
    ELSE [exc |-> "none",
          selected |-> choice(fallback(task_options(bufs.crypto.items, capability),
                                       seen_and_good(task_options(bufs.crypto.items, capability),
                                                     bufs),
                                       bufs),
                              pick)]

PickCrypto == {<<>>} \cup UtilCrypto

PickInit ==
    /\ es = "Cuckoo"
    /\ utility_targets = "All"
    /\ capability_behaviour = NoBehaviours
    /\ \E crypto \in PickCrypto, badlist \in SUBSET Peers, encountered \in SUBSET Peers :
          buffers = [a \in Agents |->
                        IF a = Owner THEN CuckooBuffers(crypto, badlist, encountered)
                        ELSE CuckooBuffers(<<>>, {}, {})]
    /\ current_time = 0
    /\ queue = <<>>
    /\ popped = NoEvent
    /\ metrics = Metrics
    /\ status = "picking"
    /\ serial = 0
    /\ calls = <<>>
    /\ ops = 0

\* the record of choose_agent_for_task(agent, capability)
PickCall(capability, r) ==
    [fn |-> "Cuckoo.choose_agent_for_task", capability |-> capability,
     selected |-> r.selected, exc |-> r.exc]

PickChoose ==
    /\ status = "picking"
    /\ \E capability \in Capabilities, pick \in 1..NumPeers :
          calls' = <<PickCall(capability,
                              Cuckoo_choose_agent_for_task(buffers[Owner], capability, pick))>>
    /\ UNCHANGED <<es, utility_targets, capability_behaviour, buffers, current_time, queue,
                   popped, metrics, status, serial, ops>>

SpecPick == PickInit /\ [][PickChoose]_vars

(***************************************************************************)
(* The crypto harness: one agent among its peers, under every strategy and *)
(* every crypto capacity from 1 to the number of peers.  A task selects a  *)
(* peer of the crypto store and queues the AgentTaskInteraction for the    *)
(* next tick; until that event is popped, the events of the other agents   *)
(* make the agent receive crypto information (AgentCryptoRequest.action,   *)
(* _ensure_crypto_exists of another interaction); then the interaction     *)
(* runs _ensure_crypto_exists and its assert.                              *)
(***************************************************************************)
MaxCryptoOps == 4

AllStrategies == Strategies \cup LRUStrategies

\* the stores of the agent: crypto of this capacity, the others empty
EnsureBuffers(capacity, strategy, badlist) ==
    [AgentBuffers(capacity, 1, 1, 1, 1, 1) EXCEPT
        !.badlist = IF strategy = "Cuckoo" THEN <<badlist>> ELSE <<>>]

EnsureInit ==
    /\ es \in AllStrategies
    /\ utility_targets = "All"
    /\ capability_behaviour = NoBehaviours
    /\ \E c \in 1..NumPeers, badlist \in IF es = "Cuckoo" THEN SUBSET Peers ELSE {{}} :
          buffers = [a \in Agents |->
                        IF a = Owner THEN EnsureBuffers(c, es, badlist)
                        ELSE AgentBuffers(1, 1, 1, 1, 1, 0)]
    /\ current_time = 0
    /\ queue = <<>>
    /\ popped = NoEvent
    /\ metrics = Metrics
    /\ status = "ensuring"
    /\ serial = 0
    /\ calls = <<>>
    /\ ops = 0

\* the times an event other than the queued interaction may run at
EnsureTimes ==
    IF queue = <<>> THEN {current_time, current_time + 1}
    ELSE {t \in {current_time, current_time + 1} : t <= queue[1].event_time}

\* the state a step of the harness leaves at time now
EnsureStep(w, now, call, ev) ==
    /\ current_time' = now
    /\ popped' = ev
    /\ buffers' = w.buffers
    /\ queue' = w.queue
    /\ metrics' = w.metrics
    /\ calls' = <<call>>
    /\ ops' = ops + 1
    /\ status' = IF w.exc = "none" THEN "ensuring" ELSE w.exc
    /\ UNCHANGED <<es, utility_targets, capability_behaviour, serial>>

\* an event of another agent: self.receive_crypto_information(agent)
EnsureReceive ==
    /\ status = "ensuring"
    /\ ops < MaxCryptoOps
    /\ \E agent \in Peers, now \in EnsureTimes, rnd \in Draws(es, buffers[Owner].crypto.length) :
          EnsureStep(receive_crypto_information(World(buffers, queue, metrics, serial, <<>>),
                                                Owner, agent, now, rnd),
                     now, [fn |-> "receive_crypto_information", agent |-> agent], popped)

\* AgentCapabilityTask.action up to perform_interaction
EnsureSchedule ==
    /\ status = "ensuring"
    /\ ops < MaxCryptoOps
    /\ queue = <<>>
    /\ \E capability \in Capabilities, now \in EnsureTimes, pick \in 1..NumPeers :
          EnsureStep(task_chosen(choose_agent_for_task(World(buffers, queue, metrics, serial, <<>>),
                                                       Owner, capability, now, pick),
                                 AgentCapabilityTask(now, Owner, capability), now),
                     now, [fn |-> "choose_agent_for_task", capability |-> capability], popped)

\* the record of our_crypto = self._ensure_crypto_exists(sim, self.source, self.target)
EnsureCall(ev, before, r) ==
    [fn |-> "_ensure_crypto_exists", target |-> ev.other, before |-> before, found |-> r.found]

\* assert our_crypto
asserted(r) == IF r.found THEN r.world ELSE Raise(r.world, "AssertionError")

\* AgentTaskInteraction.action up to assert our_crypto
EnsureExecute ==
    /\ status = "ensuring"
    /\ ops < MaxCryptoOps
    /\ queue # <<>>
    /\ \E rnd \in Draws(es, buffers[Owner].crypto.length) :
          EnsureStep(asserted(ensure_crypto_exists(
                                  World(buffers, heappop(queue).heap, metrics, serial, <<>>),
                                  Owner, heappop(queue).item.other,
                                  heappop(queue).item.event_time, rnd)),
                     heappop(queue).item.event_time,
                     EnsureCall(heappop(queue).item, buffers[Owner].crypto,
                                ensure_crypto_exists(
                                    World(buffers, heappop(queue).heap, metrics, serial, <<>>),
                                    Owner, heappop(queue).item.other,
                                    heappop(queue).item.event_time, rnd)),
                     heappop(queue).item)

EnsureNext ==
    \/ EnsureReceive
    \/ EnsureSchedule
    \/ EnsureExecute

SpecEnsure == EnsureInit /\ [][EnsureNext]_vars

(***************************************************************************)
(* The behaviour harness: the capability behaviours of the agents, every   *)
(* agent of one class, asked by peek_interaction, once or twice with one   *)
(* seed, and by next_interaction.                                          *)
(***************************************************************************)
MaxBehOps == 3

Seeds == 0..MaxSeed

BehInit ==
    /\ es = "None"
    /\ utility_targets = "All"
    /\ \E class \in BehaviourClasses :
          capability_behaviour =
              [a \in Agents |-> [c \in AgentCapabilities(a) |-> CapabilityBehaviour(class)]]
    /\ buffers = [a \in Agents |-> AgentBuffers(1, 1, 1, 1, 1, 0)]
    /\ current_time = 0
    /\ queue = <<>>
    /\ popped = NoEvent
    /\ metrics = Metrics
    /\ status = "behaving"
    /\ serial = 0
    /\ calls = <<>>
    /\ ops = 0

\* the record of one peek_interaction or next_interaction call with answer r
BehaviourCall(fn, agent, capability, seed, self, r) ==
    [fn |-> fn, agent |-> agent, capability |-> capability, seed |-> seed,
     before |-> self, after |-> r.self, result |-> r.result, exc |-> r.exc]

\* agent.capability_behaviour[capability].peek_interaction(seed), n times
BehPeek ==
    /\ status = "behaving"
    /\ ops < MaxBehOps
    /\ \E a \in Agents, c \in Capabilities, seed \in Seeds, n \in 1..2 :
          /\ calls' = [k \in 1..n |->
                          BehaviourCall("peek", a, c, seed,
                              IF k = 1 THEN capability_behaviour[a][c]
                              ELSE peek_interaction(capability_behaviour[a][c], seed).self,
                              peek_interaction(
                                  IF k = 1 THEN capability_behaviour[a][c]
                                  ELSE peek_interaction(capability_behaviour[a][c], seed).self,
                                  seed))]
          /\ capability_behaviour' =
                [capability_behaviour EXCEPT ![a][c] = calls'[n].after]
    /\ ops' = ops + 1
    /\ UNCHANGED <<es, utility_targets, buffers, current_time, queue, popped, metrics,
                   status, serial>>

\* agent.capability_behaviour[capability].next_interaction(seed, sim.current_time)
BehNext ==
    /\ status = "behaving"
    /\ ops < MaxBehOps
    /\ \E a \in Agents, c \in Capabilities, seed \in Seeds :
          /\ calls' = <<BehaviourCall("next", a, c, seed, capability_behaviour[a][c],
                                      next_interaction(capability_behaviour[a][c], seed,
                                                       current_time))>>
          /\ capability_behaviour' =
                [capability_behaviour EXCEPT ![a][c] = calls'[1].after]
    /\ ops' = ops + 1
    /\ UNCHANGED <<es, utility_targets, buffers, current_time, queue, popped, metrics,
                   status, serial>>

BehStep == BehPeek \/ BehNext

SpecBeh == BehInit /\ [][BehStep]_vars

(***************************************************************************)
(* Properties of the stores.                                               *)
(***************************************************************************)
\* the store a call acted on, before and after
Before(c) == c.before[c.kind]

After(c) == c.after[c.kind]

AddCalls == {i \in 1..Len(calls) : calls[i].fn = "add"}

\* a store of capacity C >= 1 that holds C items
Full(l) == l.length >= 1 /\ Len(l.items) >= l.length

\* what the strategy answered when the call asked it for a victim
Chosen(c) == choose(es, c.kind, Before(c).items, c.before, c.item, c.rnd)

\* C1: a store constructed with capacity C >= 1 never holds more than C
\* items, whatever append, insert, extend, remove and add_X calls were made.
C1_LengthWithinCapacity ==
    \A a \in Agents : \A k \in KindSet :
        buffers[a][k].length >= 1 => Len(buffers[a][k].items) <= buffers[a][k].length

\* C1 witness: an append, insert, extend or add_X was called on a full store
C1_Witness ==
    \E i \in 1..Len(calls) :
        /\ calls[i].fn \in {"add", "append", "insert", "extend"}
        /\ Full(Before(calls[i]))
        /\ Before(calls[i]).length = MaxCapacity

\* C2: a store of capacity 0 stays empty and every append on it raises
\* BoundExceedError (so every lookup on it misses).
C2_ZeroCapacityRejects ==
    /\ \A a \in Agents : \A k \in KindSet :
          buffers[a][k].length = 0 => buffers[a][k].items = <<>>
    /\ \A i \in 1..Len(calls) :
          (calls[i].fn = "append" /\ Before(calls[i]).length = 0)
              => calls[i].exc = "BoundExceedError"

\* C3: add_X on a full store for which the strategy chooses None leaves the
\* store as it was, does not store the candidate, calls no add hook and
\* appends no eviction record.
C3_RejectedAddChangesNothing ==
    \A i \in AddCalls :
        LET c == calls[i]
        IN (Full(Before(c)) /\ Chosen(c).exc = "none" /\ Chosen(c).idx = 0)
              => /\ c.after = c.before
                 /\ \A j \in 1..Len(After(c).items) : After(c).items[j] # c.item
                 /\ c.hooks = 0
                 /\ c.evicted = <<>>
                 /\ c.exc = "none"

C3_Witness ==
    \E i \in AddCalls :
        /\ Full(Before(calls[i]))
        /\ Chosen(calls[i]).exc = "none"
        /\ Chosen(calls[i]).idx = 0
        /\ Before(calls[i]).length = MaxCapacity

\* C4: add_X on a full store for which the strategy chooses a victim removes
\* the victim, puts the new item last, keeps the other items in their order,
\* leaves the store full and calls the add hook once, on the new item.
C4_ReplacementShape ==
    \A i \in AddCalls :
        LET c == calls[i]
            v == Chosen(c).idx
            n == Len(After(c).items)
        IN (Full(Before(c)) /\ Chosen(c).exc = "none" /\ v >= 1)
              => /\ \A j \in 1..n : After(c).items[j] # Before(c).items[v]
                 /\ n = Before(c).length
                 /\ After(c).items[n] = add_common(es, c.item, current_time)
                 /\ SubSeq(After(c).items, 1, n - 1) = RemoveAt(Before(c).items, v)
                 /\ c.hooks = 1

\* C4 witness: a victim that is not the first item of a store of several
C4_Witness ==
    \E i \in AddCalls :
        /\ Full(Before(calls[i]))
        /\ Chosen(calls[i]).exc = "none"
        /\ Chosen(calls[i]).idx >= 2
        /\ calls[i].exc = "none"

\* the direct BoundedList calls of the last step
ListCalls == {i \in 1..Len(calls) : calls[i].fn \in {"append", "insert", "extend", "remove"}}

\* C12: after freeze(), every append, insert, extend and remove fails with the
\* frozen-violation error and leaves the contents unchanged, whether the store
\* is full or not.
C12_FrozenMutatorsFail ==
    \A i \in ListCalls :
        Before(calls[i]).frozen =>
            /\ calls[i].exc = FrozenError
            /\ After(calls[i]) = Before(calls[i])

(***************************************************************************)
(* Properties of the run.                                                  *)
(***************************************************************************)
\* the add_X call c put its item in place of a stored one: an item the store
\* held before the call is gone after it
Replaced(c) ==
    \E i \in 1..Len(Before(c).items) :
        \A j \in 1..Len(After(c).items) :
            EqValue(WithoutEvictionData(After(c).items[j]))
                # EqValue(WithoutEvictionData(Before(c).items[i]))

\* the eviction records of this kind that name this agent
EvictionRecords(m, kind, agent) ==
    SelectSeq(m[EvictedList(kind)], LAMBDA rec : rec[2] = agent)

\* C5: for every store kind and agent, a step appends as many eviction
\* records to the metrics as it makes add_X calls on that agent's store of
\* that kind that replace a victim; the lists start empty, so the number of
\* records always equals the number of replacing calls.
C5_EvictionRecordPerReplacement ==
    [][\A a \in Agents : \A k \in KindSet :
          /\ Len(EvictionRecords(metrics', k, a)) - Len(EvictionRecords(metrics, k, a))
                = Cardinality({i \in 1..Len(calls') :
                                  /\ calls'[i].fn = "add"
                                  /\ calls'[i].kind = k
                                  /\ calls'[i].owner = a
                                  /\ Replaced(calls'[i])})
          /\ SubSeq(metrics'[EvictedList(k)], 1, Len(metrics[EvictedList(k)]))
                = metrics[EvictedList(k)]]_vars

C5_Witness ==
    /\ status = "running"
    /\ \E i \in AddCalls :
          /\ Replaced(calls[i])
          /\ Len(EvictionRecords(metrics, calls[i].kind, calls[i].owner)) >= 1

\* C6: no add_X call ends with BoundExceedError, from its first append or
\* from the append after the victim is removed, and so neither an event's
\* action nor Simulator.run ends with it.
C6_BoundExceedErrorNeverEscapes ==
    /\ status # "BoundExceedError"
    /\ \A i \in AddCalls : calls[i].exc # "BoundExceedError"

C6_Witness ==
    /\ status = "running"
    /\ popped.type = "AgentTaskInteraction"
    /\ \E i \in AddCalls :
          /\ Full(Before(calls[i]))
          /\ Chosen(calls[i]).idx >= 1
          /\ Full(After(calls[i]))
          /\ calls[i].exc = "none"

\* C7: current_time starts at 0 and no step decreases it; every event that
\* executes sets it to the event's time.
C7_TimeNeverDecreases ==
    /\ current_time = 0
    /\ [][current_time' >= current_time]_vars

C7_Witness ==
    /\ status = "running"
    /\ current_time = Duration
    /\ popped.event_time = Duration
    /\ \E i \in 1..Len(metrics.interaction_performed) :
          metrics.interaction_performed[i][1] < Duration

\* C8: whenever the run loop pops an event to execute, no event in the queue,
\* freshly added or re-enqueued, has a strictly smaller event_time.
C8_ExecutesEarliestEvent ==
    [][(status = "running" /\ queue # <<>>) =>
          \A i \in 1..Len(queue) : queue[i].event_time >= popped'.event_time]_vars

C8_Witness ==
    /\ status = "running"
    /\ popped.type = "AgentCapabilityTask"
    /\ \E i \in 1..Len(queue) : queue[i].event_time > popped.event_time
    /\ \E i \in 1..Len(queue) : queue[i].event_time = popped.event_time
    /\ \E i \in 1..Len(queue) :
          /\ queue[i].type = "AgentCapabilityTask"
          /\ queue[i].agent = popped.agent
          /\ queue[i].capability = popped.capability

\* C9: the clock never passes the duration: an event popped with a time
\* beyond it is not executed, and the loop stops at that event.
C9_NothingRunsPastDuration ==
    /\ current_time <= Duration
    /\ popped.event_time > Duration =>
          status = "stopped" /\ current_time < popped.event_time
    /\ \A i \in 1..Len(metrics.buffers) : metrics.buffers[i].t <= Duration
    /\ \A i \in 1..Len(metrics.interaction_performed) :
          metrics.interaction_performed[i][1] <= Duration

C9_Witness ==
    /\ status = "stopped"
    /\ popped.event_time > Duration
    /\ current_time = Duration
    /\ queue # <<>>

\* C10: when Simulator.run has ended, it has ended by leaving the loop, with
\* the queue empty or the event popped last lying beyond the duration.
C10_RunEndsAtHorizon ==
    status \notin {"stores", "init", "running"} =>
        /\ status = "stopped"
        /\ queue = <<>> \/ popped.event_time > Duration

\* the buffer evaluation the AgentTaskInteraction popped last has recorded
Evaluated ==
    /\ popped.type = "AgentTaskInteraction"
    /\ metrics.buffers # <<>>
    /\ metrics.buffers[Len(metrics.buffers)].t = popped.event_time
    /\ metrics.buffers[Len(metrics.buffers)].source = popped.agent
    /\ metrics.buffers[Len(metrics.buffers)].capability = popped.capability

\* C13: the utility, the max-utility and the buffer snapshot an
\* AgentTaskInteraction records are those of the source's stores as they were
\* when perform_interaction scheduled the event, whatever was added, evicted
\* or counted in the source's stores since.
C13_EvaluationOfScheduledStores ==
    Evaluated =>
        LET e == metrics.buffers[Len(metrics.buffers)]
            targets == utility_targets_of(popped.agent, e.outcomes)
        IN /\ e.buffers = buffers_basic(popped.scheduled)
           /\ e.utility = utility(popped.scheduled, popped.agent, popped.capability, targets)
           /\ e.max_utility = max_utility(popped.scheduled, popped.agent, popped.capability, targets)

\* what the snapshot of a ReputationItem shows: the (agent, capability,
\* correct_count, incorrect_count) of its trust items, in order
Counted(item) == <<item.agent, item.capability, item.correct_count, item.incorrect_count>>

SnapshotOf(bufs, sender) ==
    [i \in 1..Len(bufs.reputation.items[find_reputation(bufs, sender)].trust_items) |->
        Counted(bufs.reputation.items[find_reputation(bufs, sender)].trust_items[i])]

\* C14: a step in which a receiver does not receive a dissemination from the
\* sender leaves the trust snapshot of its ReputationItem about that sender as
\* it was, in membership and in the correct/incorrect counters.
C14_SnapshotIndependentOfSender ==
    [][\A receiver \in Agents : \A sender \in Agents :
          (/\ find_reputation(buffers[receiver], sender) # 0
           /\ find_reputation(buffers'[receiver], sender) # 0
           /\ ~(popped'.type = "AgentTrustDissemination" /\ popped'.agent = sender))
          => SnapshotOf(buffers'[receiver], sender) = SnapshotOf(buffers[receiver], sender)]_vars

\* C15: no item of any agent's crypto, trust, reputation, stereotype or
\* challenge-response store is about the agent that owns the store.
C15_NoSelfPeer ==
    \A a \in Agents : \A kind \in KindSet :
        \A i \in 1..Len(buffers[a][kind].items) : buffers[a][kind].items[i].agent # a

C15_Witness ==
    /\ status = "running"
    /\ \E a \in Agents :
          \A kind \in {"crypto", "trust", "reputation", "stereotype"} :
              buffers[a][kind].items # <<>>

(***************************************************************************)
(* Properties of the eviction strategies.                                  *)
(***************************************************************************)
\* the choose_X calls of the last step
ChooseCalls == {i \in 1..Len(calls) : calls[i].fn = "choose"}

\* the use hook calls of the last step
UseCalls == {i \in 1..Len(calls) : calls[i].fn = "use"}

\* C16: under every strategy and for every kind, choose_X called with an empty
\* list of items returns None and raises nothing.
C16_ChooseOnEmptyIsNone ==
    \A i \in ChooseCalls :
        Before(calls[i]).items = <<>> => calls[i].exc = "none" /\ calls[i].victim = 0

\* the choose_X call c on a non-empty list returned an item whose key is
\* minimal, keys being the keys of the items in order
ChoseMinimal(c, keys) ==
    /\ c.exc = "none"
    /\ c.victim \in 1..Len(keys)
    /\ \A j \in 1..Len(keys) : keys[c.victim] <= keys[j]

\* the use hook call c left every item as it was
UseChangedNothing(c) == c.after = c.before

\* the use hook call c gave the item used the eviction_data stamp and left
\* everything else as it was
UseStamped(c, stamp) ==
    /\ c.idx >= 1
    /\ c.after = [c.before EXCEPT ![c.kind].items[c.idx].eviction_data = stamp]

\* the add_X call c that stored its item gave it the eviction_data stamp
AddStamped(c, stamp) ==
    (c.exc = "none" /\ c.hooks = 1) =>
        After(c).items[Len(After(c).items)] = [c.item EXCEPT !.eviction_data = stamp]

\* a step that calls no add_X and no use hook leaves the stores as they are
OnlyHooksWrite ==
    (\A i \in 1..Len(calls') : calls'[i].fn \notin {"add", "use"}) => buffers' = buffers

\* C17: under LRU the add hook stamps the item with the current time, the use
\* hook stamps the item used with the current time and changes nothing when
\* called with None, nothing else writes a stamp, and choose on a non-empty
\* list returns an item whose stamp, the time of its last use or of its add if
\* never used, is minimal.
C17_LRUChoosesLeastRecentlyUsed ==
    [][es = "LRU" =>
          /\ \A i \in 1..Len(calls') :
                /\ calls'[i].fn = "add" => AddStamped(calls'[i], <<current_time>>)
                /\ calls'[i].fn = "use" =>
                      IF calls'[i].idx = 0 THEN UseChangedNothing(calls'[i])
                      ELSE UseStamped(calls'[i], <<current_time>>)
                /\ (calls'[i].fn = "choose" /\ Before(calls'[i]).items # <<>>) =>
                      ChoseMinimal(calls'[i], Timestamps(Before(calls'[i]).items))
          /\ OnlyHooksWrite]_vars

\* the item added first was used after the second was added, so the second
\* is the one chosen
C17_Witness ==
    /\ es = "LRU"
    /\ \E i \in ChooseCalls :
          /\ calls[i].victim >= 2
          /\ Before(calls[i]).items[1].eviction_data[1]
                > Before(calls[i]).items[calls[i].victim].eviction_data[1]

\* C18: under FIFO the add hook stamps the item with the current time, the use
\* hook never changes the eviction_data of any item, nothing else writes a
\* stamp, and choose on a non-empty list returns an item whose stamp, the
\* time of its add, is minimal.
C18_FIFOChoosesOldestAdded ==
    [][es = "FIFO" =>
          /\ \A i \in 1..Len(calls') :
                /\ calls'[i].fn = "add" => AddStamped(calls'[i], <<current_time>>)
                /\ calls'[i].fn = "use" => UseChangedNothing(calls'[i])
                /\ (calls'[i].fn = "choose" /\ Before(calls'[i]).items # <<>>) =>
                      ChoseMinimal(calls'[i], Timestamps(Before(calls'[i]).items))
          /\ OnlyHooksWrite]_vars

\* a stored item is used at a time later than the time of its add, in a store
\* that holds a more recent item
C18_Witness ==
    /\ es = "FIFO"
    /\ \E i \in UseCalls :
          /\ calls[i].idx = 1
          /\ Len(Before(calls[i]).items) >= 2
          /\ Before(calls[i]).items[1].eviction_data[1] < Before(calls[i]).items[2].eviction_data[1]
          /\ Before(calls[i]).items[2].eviction_data[1] < current_time
          /\ choose(es, calls[i].kind, After(calls[i]).items, calls[i].after,
                    NewItem(calls[i].kind), 1).idx = 1

\* C19: under LRU2 the eviction_data of an item is the pair (most recent
\* access, previous most recent access): the add hook sets both to the current
\* time, the use hook puts the current time first and the former first
\* second, nothing else writes it, and choose on a non-empty list returns an
\* item whose second component is minimal.
C19_LRU2ChoosesByPreviousAccess ==
    [][es = "LRU2" =>
          /\ \A i \in 1..Len(calls') :
                /\ calls'[i].fn = "add" => AddStamped(calls'[i], <<current_time, current_time>>)
                /\ calls'[i].fn = "use" =>
                      IF calls'[i].idx = 0 THEN UseChangedNothing(calls'[i])
                      ELSE UseStamped(calls'[i],
                                      <<current_time,
                                        Before(calls'[i]).items[calls'[i].idx].eviction_data[1]>>)
                /\ (calls'[i].fn = "choose" /\ Before(calls'[i]).items # <<>>) =>
                      ChoseMinimal(calls'[i], PreviousTimestamps(Before(calls'[i]).items))
          /\ OnlyHooksWrite]_vars

\* the item chosen was used once since its add, more recently than another
\* item of the store was accessed, and is ranked by the time of its add
C19_Witness ==
    /\ es = "LRU2"
    /\ \E i \in ChooseCalls :
          /\ calls[i].victim >= 1
          /\ Before(calls[i]).items[calls[i].victim].eviction_data[1]
                > Before(calls[i]).items[calls[i].victim].eviction_data[2]
          /\ \E j \in 1..Len(Before(calls[i]).items) :
                Before(calls[i]).items[j].eviction_data[1]
                  < Before(calls[i]).items[calls[i].victim].eviction_data[1]

\* what identifies the items of a store, in order: the agent an item is
\* about and, where the item has one, the capability
Members(l) ==
    [i \in 1..Len(l.items) |->
        IF "capability" \in DOMAIN l.items[i]
        THEN <<l.items[i].agent, l.items[i].capability>>
        ELSE <<l.items[i].agent>>]

\* C20: under the None strategy no step of the run removes an item from a
\* store (the items of a store stay, in order, and new ones come after them),
\* no eviction record of any kind is ever appended, and a full store keeps
\* exactly the items it has.
C20_NoneNeverEvicts ==
    [][es = "None" =>
          /\ \A a \in Agents : \A kind \in KindSet :
                /\ Len(buffers'[a][kind].items) >= Len(buffers[a][kind].items)
                /\ SubSeq(Members(buffers'[a][kind]), 1, Len(buffers[a][kind].items))
                      = Members(buffers[a][kind])
                /\ Full(buffers[a][kind]) => Members(buffers'[a][kind]) = Members(buffers[a][kind])
          /\ \A kind \in KindSet : metrics'[EvictedList(kind)] = <<>>]_vars

\* an add_X call of the run on a full store, rejected
C20_Witness ==
    /\ es = "None"
    /\ status = "running"
    /\ \E i \in AddCalls :
          /\ Full(Before(calls[i]))
          /\ calls[i].exc = "none"
          /\ calls[i].after = calls[i].before
          /\ calls[i].evicted = <<>>

\* the trust scores of the items a choose_X call was given
ScoresOf(c) == item_trust(Before(c).items)

\* the median of the values: the middle one, or the mean of the two middle
\* ones, as a fraction
Median(values) ==
    IF Len(values) % 2 = 1 THEN Kth(values, (Len(values) + 1) \div 2)
    ELSE <<Kth(values, Len(values) \div 2)[1] * Kth(values, Len(values) \div 2 + 1)[2]
             + Kth(values, Len(values) \div 2 + 1)[1] * Kth(values, Len(values) \div 2)[2],
           2 * Kth(values, Len(values) \div 2)[2] * Kth(values, Len(values) \div 2 + 1)[2]>>

\* the choose_X call c returned one of the items among, and no item among has
\* a smaller stamp
ChoseLRUAmong(c, among) ==
    /\ c.exc = "none"
    /\ c.victim \in among
    /\ \A j \in among :
          Before(c).items[c.victim].eviction_data[1] <= Before(c).items[j].eviction_data[1]

\* the items whose trust score is at or below the median score
AtOrBelowMedian(c) ==
    {j \in 1..Len(Before(c).items) : Leq(ScoresOf(c)[j], Median(ScoresOf(c)))}

\* C21: under Chen2016, choose_trust on a non-empty trust store returns the
\* least recently used of the items whose trust score (correct / (correct +
\* incorrect), 0.5 with no history) is at or below the median score, never an
\* item above the median; choose_X of every other kind returns the least
\* recently used item of the store.
C21_Chen2016ChoosesLRUAtOrBelowMedian ==
    es = "Chen2016" =>
        \A i \in ChooseCalls :
            Before(calls[i]).items # <<>> =>
                IF calls[i].kind = "trust"
                THEN /\ ChoseLRUAmong(calls[i], AtOrBelowMedian(calls[i]))
                     /\ ~Less(Median(ScoresOf(calls[i])), ScoresOf(calls[i])[calls[i].victim])
                ELSE ChoseMinimal(calls[i], Timestamps(Before(calls[i]).items))

\* the victim is not the least recently used item of the store: an item above
\* the median has a smaller stamp
C21_Witness ==
    /\ es = "Chen2016"
    /\ \E i \in ChooseCalls :
          /\ calls[i].kind = "trust"
          /\ calls[i].victim >= 1
          /\ \E j \in 1..Len(Before(calls[i]).items) :
                /\ Less(Median(ScoresOf(calls[i])), ScoresOf(calls[i])[j])
                /\ Before(calls[i]).items[j].eviction_data[1]
                      < Before(calls[i]).items[calls[i].victim].eviction_data[1]

\* the quintile boundary q / 5 of the scores the call was given
Quintile(c, q) == quantile(ScoresOf(c), q, 5)

\* the items with q20 < score <= q40 or q60 < score <= q80
Eligible(c) ==
    {j \in 1..Len(Before(c).items) :
        \/ Less(Quintile(c, 1), ScoresOf(c)[j]) /\ Leq(ScoresOf(c)[j], Quintile(c, 2))
        \/ Less(Quintile(c, 3), ScoresOf(c)[j]) /\ Leq(ScoresOf(c)[j], Quintile(c, 4))}

\* the items of the lowest band, of the middle band and of the highest band
KeptBands(c) ==
    {j \in 1..Len(Before(c).items) :
        \/ Leq(ScoresOf(c)[j], Quintile(c, 1))
        \/ Less(Quintile(c, 2), ScoresOf(c)[j]) /\ Leq(ScoresOf(c)[j], Quintile(c, 3))
        \/ Less(Quintile(c, 4), ScoresOf(c)[j])}

\* the scores are 0.1, 0.3, 0.5, 0.7 and 0.9, in any order
ExampleScores(c) ==
    /\ Len(Before(c).items) = 5
    /\ \A k \in {1, 3, 5, 7, 9} :
          \E j \in 1..5 : ScoresOf(c)[j][1] * 10 = k * ScoresOf(c)[j][2]

\* the items scored 0.3 and 0.7
ScoredThreeOrSeven(c) ==
    {j \in 1..Len(Before(c).items) :
        \/ ScoresOf(c)[j][1] * 10 = 3 * ScoresOf(c)[j][2]
        \/ ScoresOf(c)[j][1] * 10 = 7 * ScoresOf(c)[j][2]}

\* C22: under FiveBand, choose_trust on a non-empty trust store whose
\* eligible set (q20 < score <= q40 or q60 < score <= q80) is non-empty
\* returns the least recently used item of that set, never an item of the
\* lowest, the middle or the highest band; for the scores 0.1, 0.3, 0.5, 0.7,
\* 0.9 the eligible set is the items scored 0.3 and 0.7; when the eligible
\* set is empty the victim is the least recently used item at or below the
\* median.
C22_FiveBandChoosesLRUOfSecondOrFourthBand ==
    es = "FiveBand" =>
        \A i \in ChooseCalls :
            (calls[i].kind = "trust" /\ Before(calls[i]).items # <<>>) =>
                /\ Eligible(calls[i]) # {} =>
                      /\ ChoseLRUAmong(calls[i], Eligible(calls[i]))
                      /\ calls[i].victim \notin KeptBands(calls[i])
                /\ ExampleScores(calls[i]) =>
                      /\ Eligible(calls[i]) = ScoredThreeOrSeven(calls[i])
                      /\ ChoseLRUAmong(calls[i], ScoredThreeOrSeven(calls[i]))
                /\ Eligible(calls[i]) = {} =>
                      ChoseLRUAmong(calls[i], AtOrBelowMedian(calls[i]))

\* the scores of the example, with the item scored 0.7 chosen although an
\* item of a kept band that comes before it in the store has no larger stamp
C22_Witness ==
    /\ es = "FiveBand"
    /\ \E i \in ChooseCalls :
          /\ calls[i].kind = "trust"
          /\ ExampleScores(calls[i])
          /\ calls[i].victim >= 1
          /\ ScoresOf(calls[i])[calls[i].victim] = <<7, 10>>
          /\ \E j \in KeptBands(calls[i]) :
                /\ j < calls[i].victim
                /\ Before(calls[i]).items[j].eviction_data[1]
                      <= Before(calls[i]).items[calls[i].victim].eviction_data[1]

\* the eligible set is empty and the median rule names the victim
C22_WitnessFallback ==
    /\ es = "FiveBand"
    /\ \E i \in ChooseCalls :
          /\ calls[i].kind = "trust"
          /\ Len(Before(calls[i]).items) >= 3
          /\ Eligible(calls[i]) = {}
          /\ calls[i].victim >= 1

\* the count that NotInOther and MinNotInOther give each item the call had
CountsOf(c) == other_counts(c.kind, Before(c).items, c.before)

\* the items whose count is zero
ZeroPresence(c) == {j \in 1..Len(Before(c).items) : CountsOf(c)[j] = 0}

\* every item the call was given
AllOf(c) == 1..Len(Before(c).items)

\* C23: under NotInOther, choose_X of a crypto, trust, reputation or
\* stereotype store returns the least recently used of the items with zero
\* presence in the other stores when there is one, never an item with non-zero
\* presence, and the least recently used item of the store otherwise.
C23_NotInOtherChoosesLRUOfAbsent ==
    es = "NotInOther" =>
        \A i \in ChooseCalls :
            (calls[i].kind \in FourKinds /\ Before(calls[i]).items # <<>>) =>
                IF ZeroPresence(calls[i]) # {}
                THEN ChoseLRUAmong(calls[i], ZeroPresence(calls[i]))
                ELSE ChoseLRUAmong(calls[i], AllOf(calls[i]))

\* the victim has zero presence and an item with non-zero presence has a
\* smaller stamp
C23_Witness ==
    /\ es = "NotInOther"
    /\ \E i \in ChooseCalls :
          /\ calls[i].victim \in ZeroPresence(calls[i])
          /\ \E j \in AllOf(calls[i]) \ ZeroPresence(calls[i]) :
                Before(calls[i]).items[j].eviction_data[1]
                  < Before(calls[i]).items[calls[i].victim].eviction_data[1]

\* no item has zero presence and the least recently used item is the victim
C23_WitnessFallback ==
    /\ es = "NotInOther"
    /\ \E i \in ChooseCalls :
          /\ ZeroPresence(calls[i]) = {}
          /\ calls[i].victim = 2

\* the items whose count is the smallest of the counts
MinPresence(c) ==
    {j \in AllOf(c) : \A k \in AllOf(c) : CountsOf(c)[j] <= CountsOf(c)[k]}

\* C24: under MinNotInOther, choose_X of a crypto, trust, reputation or
\* stereotype store returns an item whose count of presence in the other
\* stores is the minimum over the items of the store, and whose stamp is
\* minimal among the items with that count.
C24_MinNotInOtherChoosesLRUOfMinimum ==
    es = "MinNotInOther" =>
        \A i \in ChooseCalls :
            (calls[i].kind \in FourKinds /\ Before(calls[i]).items # <<>>) =>
                ChoseLRUAmong(calls[i], MinPresence(calls[i]))

\* no item has zero presence, and the victim has a smaller count and a larger
\* stamp than the other item
C24_Witness ==
    /\ es = "MinNotInOther"
    /\ \E i \in ChooseCalls :
          /\ calls[i].victim >= 1
          /\ ZeroPresence(calls[i]) = {}
          /\ \E j \in AllOf(calls[i]) :
                /\ CountsOf(calls[i])[j] > CountsOf(calls[i])[calls[i].victim]
                /\ Before(calls[i]).items[j].eviction_data[1]
                      < Before(calls[i]).items[calls[i].victim].eviction_data[1]

\* the priorities of the capabilities of the entries of a snapshot
EntryPriorities(item) ==
    {priority(item.trust_items[j].capability) : j \in 1..Len(item.trust_items)}

\* the priority of an item: that of its capability for a trust or stereotype
\* item, the largest priority over the capabilities of the peer for a crypto
\* item and over the capabilities of the entries of the snapshot for a
\* reputation item (-1 when the snapshot is empty)
PriorityOf(kind, item) ==
    CASE kind \in {"trust", "stereotype"} -> priority(item.capability)
      [] kind = "crypto" ->
            CHOOSE p \in {priority(c) : c \in AgentCapabilities(item.agent)} :
                \A c \in AgentCapabilities(item.agent) : priority(c) <= p
      [] kind = "reputation" ->
            IF item.trust_items = <<>> THEN -1
            ELSE CHOOSE p \in EntryPriorities(item) : \A q \in EntryPriorities(item) : q <= p

\* the items whose priority is the lowest
LowestPriority(c) ==
    {j \in AllOf(c) :
        \A k \in AllOf(c) :
            PriorityOf(c.kind, Before(c).items[j]) <= PriorityOf(c.kind, Before(c).items[k])}

Badlisted(c) ==
    {j \in AllOf(c) : Before(c).items[j].agent \in c.before.badlist[1]}

\* C26: under Cuckoo, when some item of the store is about an agent in the
\* owner's badlist, choose_X returns the least recently used of the badlisted
\* items; otherwise the least recently used item of the store.
C26_CuckooChoosesLRUOfBadlisted ==
    es = "Cuckoo" =>
        \A i \in ChooseCalls :
            Before(calls[i]).items # <<>> =>
                IF Badlisted(calls[i]) # {}
                THEN ChoseLRUAmong(calls[i], Badlisted(calls[i]))
                ELSE ChoseLRUAmong(calls[i], AllOf(calls[i]))

\* C27: an agent whose crypto store has capacity 0 has, in every state of a
\* run, a utility of exactly 0 for every capability over every list of targets
\* that is not empty once the agent itself and the agents without the
\* capability are left out.
C27_NoCryptoCapacityNoUtility ==
    \A a \in Agents : \A c \in Capabilities :
        (buffers[a].crypto.length = 0 /\ UtilityAgents(AgentList, a, c) # <<>>) =>
            utility(buffers[a], a, c, AgentList)[1] = 0

\* C28: every buffer evaluation a run records with a defined utility has
\* 0 <= utility <= max_utility and max_utility > 0, whatever the capacities.
C28_UtilityWithinMaximum ==
    \A i \in 1..Len(metrics.buffers) :
        metrics.buffers[i].utility[2] # 0 =>
            /\ 0 <= metrics.buffers[i].utility[1]
            /\ metrics.buffers[i].utility[1] * metrics.buffers[i].max_utility[2]
                  <= metrics.buffers[i].max_utility[1] * metrics.buffers[i].utility[2]
            /\ metrics.buffers[i].max_utility[1] > 0

\* the targets of an evaluation once the source and the agents without the
\* capability are left out
EvaluatedTargets(e) ==
    {a \in Peers : /\ a # e.source
                   /\ e.capability \in AgentCapabilities(a)
                   /\ utility_targets = "Good" => e.outcomes[a] = "Correct"}

\* a crypto item exists for the target
HasCrypto(bufs, target) ==
    \E i \in 1..Len(bufs.crypto.items) : bufs.crypto.items[i].agent = target

\* the trust item for (target, capability) has at least one recorded outcome
HasDirectTrust(bufs, target, capability) ==
    \E i \in 1..Len(bufs.trust.items) :
        /\ bufs.trust.items[i].agent = target
        /\ bufs.trust.items[i].capability = capability
        /\ bufs.trust.items[i].correct_count + bufs.trust.items[i].incorrect_count >= 1

\* the snapshot of some reputation item has an entry for (target, capability)
\* with at least one recorded outcome
HasReputation(bufs, target, capability) ==
    \E i \in 1..Len(bufs.reputation.items) :
        \E j \in 1..Len(bufs.reputation.items[i].trust_items) :
            /\ bufs.reputation.items[i].trust_items[j].agent = target
            /\ bufs.reputation.items[i].trust_items[j].capability = capability
            /\ bufs.reputation.items[i].trust_items[j].correct_count
                  + bufs.reputation.items[i].trust_items[j].incorrect_count >= 1

\* a stereotype item exists for (target, capability)
HasStereotype(bufs, target, capability) ==
    \E i \in 1..Len(bufs.stereotype.items) :
        /\ bufs.stereotype.items[i].agent = target
        /\ bufs.stereotype.items[i].capability = capability

\* Uc * (1 + Ud + Up + Us) of one target
TargetScore(bufs, target, capability) ==
    IF ~HasCrypto(bufs, target) THEN 0
    ELSE 1 + (IF HasDirectTrust(bufs, target, capability) THEN 1 ELSE 0)
           + (IF HasReputation(bufs, target, capability) THEN 1 ELSE 0)
           + (IF HasStereotype(bufs, target, capability) THEN 1 ELSE 0)

RECURSIVE ScoreSum(_, _, _)
\* the sum of TargetScore over a set of targets
ScoreSum(bufs, targets, capability) ==
    IF targets = {} THEN 0
    ELSE TargetScore(bufs, CHOOSE a \in targets : TRUE, capability)
         + ScoreSum(bufs, targets \ {CHOOSE a \in targets : TRUE}, capability)

\* every TrustItem of a trust store or of a snapshot has a recorded outcome:
\* update_trust_history records right after add_trust
StoredTrustItemsHaveOutcomes ==
    \A a \in Agents :
        /\ \A i \in 1..Len(buffers[a].trust.items) : total_count(buffers[a].trust.items[i]) >= 1
        /\ \A i \in 1..Len(buffers[a].reputation.items) :
              \A j \in 1..Len(buffers[a].reputation.items[i].trust_items) :
                  total_count(buffers[a].reputation.items[i].trust_items[j]) >= 1

\* C29: the utility of every buffer evaluation over a non-empty set of
\* targets is the mean over the targets of Uc * (1 + Ud + Up + Us) / 4, where
\* Up is 1 exactly when the snapshot of some reputation item has an entry for
\* the same (target, capability) with at least one outcome, and Ud is 1
\* exactly when the trust item for (target, capability) has at least one.
C29_UtilityIsMeanOfKnowledge ==
    \A i \in 1..Len(metrics.buffers) :
        EvaluatedTargets(metrics.buffers[i]) # {} =>
            /\ metrics.buffers[i].utility[2] # 0
            /\ metrics.buffers[i].utility[1] * 4 * Cardinality(EvaluatedTargets(metrics.buffers[i]))
                 = ScoreSum(buffers[metrics.buffers[i].source],
                            EvaluatedTargets(metrics.buffers[i]), metrics.buffers[i].capability)
                   * metrics.buffers[i].utility[2]

\* an evaluation over both peers in which one has Up = 1 from the snapshot of
\* the other's reputation item and the other has no reputation entry
C29_Witness ==
    \E i \in 1..Len(metrics.buffers) :
        /\ EvaluatedTargets(metrics.buffers[i]) = Peers
        /\ \E a \in Peers :
              /\ HasCrypto(buffers[Owner], a)
              /\ HasReputation(buffers[Owner], a, metrics.buffers[i].capability)
              /\ \E b \in Peers :
                    /\ HasCrypto(buffers[Owner], b)
                    /\ ~HasReputation(buffers[Owner], b, metrics.buffers[i].capability)
        /\ metrics.buffers[i].utility[1] >= 3

\* the recorded evaluations whose utility is not NaN, in order
Defined(evaluations) == SelectSeq(evaluations, LAMBDA b : b.utility # <<0, 0>>)

UpdateCalls == {i \in 1..Len(calls) : calls[i].fn = "update"}

\* C30: utility and max_utility of a buffer evaluation are NaN exactly when
\* no target is left once the source and the agents without the capability
\* are excluded, and the normalized utilities that the merge of the metrics
\* collects are those of the evaluations whose utility is not NaN, one each
\* and in order, none of them NaN.
C30_NaNOnlyWithoutTargetsAndNeverMerged ==
    /\ \A i \in 1..Len(metrics.buffers) :
          /\ metrics.buffers[i].utility = <<0, 0>> <=> EvaluatedTargets(metrics.buffers[i]) = {}
          /\ metrics.buffers[i].max_utility = <<0, 0>>
                <=> EvaluatedTargets(metrics.buffers[i]) = {}
    /\ \A i \in UpdateCalls :
          calls[i].exc = "none" =>
              /\ Len(calls[i].normed_utilities) = Len(Defined(calls[i].m.buffers))
              /\ \A k \in 1..Len(calls[i].normed_utilities) :
                    /\ calls[i].normed_utilities[k][2] # 0
                    /\ calls[i].normed_utilities[k][1] * Defined(calls[i].m.buffers)[k].max_utility[1]
                           * Defined(calls[i].m.buffers)[k].utility[2]
                         = calls[i].normed_utilities[k][2] * Defined(calls[i].m.buffers)[k].utility[1]
                           * Defined(calls[i].m.buffers)[k].max_utility[2]

\* a merge of metrics that hold an evaluation with NaN and one without
C30_Witness ==
    \E i \in UpdateCalls :
        /\ calls[i].exc = "none"
        /\ Len(calls[i].m.buffers) = 2
        /\ calls[i].m.buffers[1].utility = <<0, 0>>
        /\ calls[i].m.buffers[1].max_utility = <<0, 0>>
        /\ Len(calls[i].normed_utilities) = 1

\* the events of a class in a queue
EventsOf(heap, type) == {i \in 1..Len(heap) : heap[i].type = type}

\* the event the run loop is about to execute
Due == run_pop(queue, current_time).item

\* the AgentCapabilityTask about to run finds no peer with its capability in
\* the agent's crypto store
NoEligiblePeer ==
    \A i \in 1..Len(buffers[Due.agent].crypto.items) :
        Due.capability \notin AgentCapabilities(buffers[Due.agent].crypto.items[i].agent)

\* the step appended one record (agent, capability) to this log of the metrics
\* and left the other log alone
RecordedIn(log, other) ==
    /\ Len(metrics'[log]) = Len(metrics[log]) + 1
    /\ SubSeq(metrics'[log], 1, Len(metrics[log])) = metrics[log]
    /\ metrics'[log][Len(metrics'[log])][2] = Due.agent
    /\ metrics'[log][Len(metrics'[log])][3] = Due.capability
    /\ metrics'[other] = metrics[other]

\* the event just executed is in the queue again, at a later time
Requeued ==
    \E i \in 1..Len(queue') :
        /\ queue'[i].type = Due.type
        /\ queue'[i].agent = Due.agent
        /\ queue'[i].capability = Due.capability
        /\ queue'[i].event_time > Due.event_time

\* C31: every execution of an AgentCapabilityTask ends without an exception
\* and appends exactly one record for (agent, capability), to
\* interaction_performed or to interaction_agent_select_fail; when the crypto
\* store holds no peer with the capability the record is a select-fail, no
\* AgentTaskInteraction is enqueued and the task is in the queue again.
C31_TaskRecordsOneOutcome ==
    [][Executes("AgentCapabilityTask") =>
          /\ status' = "running"
          /\ \/ RecordedIn("interaction_performed", "interaction_agent_select_fail")
             \/ RecordedIn("interaction_agent_select_fail", "interaction_performed")
          /\ Requeued
          /\ NoEligiblePeer =>
                /\ RecordedIn("interaction_agent_select_fail", "interaction_performed")
                /\ Cardinality(EventsOf(queue', "AgentTaskInteraction"))
                     = Cardinality(EventsOf(queue, "AgentTaskInteraction"))
                /\ Len(queue') = Len(queue)]_vars

\* a task has just run without an eligible peer: its select-fail is the last
\* record, and the task is queued again
C31_Witness ==
    /\ status = "running"
    /\ popped.type = "AgentCapabilityTask"
    /\ buffers[popped.agent].crypto.items = <<>>
    /\ metrics.interaction_agent_select_fail # <<>>
    /\ metrics.interaction_agent_select_fail[Len(metrics.interaction_agent_select_fail)]
          = <<current_time, popped.agent, popped.capability>>
    /\ \E i \in 1..Len(queue) :
          /\ queue[i].type = "AgentCapabilityTask"
          /\ queue[i].agent = popped.agent
          /\ queue[i].capability = popped.capability
          /\ queue[i].event_time > current_time

PeekCalls == {i \in 1..Len(calls) : calls[i].fn = "peek"}

NextCalls == {i \in 1..Len(calls) : calls[i].fn = "next"}

\* the behaviours of the state are those of the last call of the step
LastCallWritten ==
    calls # <<>> =>
        capability_behaviour[calls[Len(calls)].agent][calls[Len(calls)].capability]
          = calls[Len(calls)].after

\* C32: peek_interaction leaves the start distribution and the state_history
\* of the behaviour unchanged, and two peeks with the same seed in the same
\* latent state answer the same; next_interaction answers what
\* peek_interaction answers for that seed in that state, and appends exactly
\* one (time, state) entry to state_history.
C32_PeekIsPureAndNextAgrees ==
    /\ LastCallWritten
    /\ \A i \in PeekCalls :
          /\ calls[i].after.startprob = calls[i].before.startprob
          /\ calls[i].after.state_history = calls[i].before.state_history
          /\ \A j \in PeekCalls :
                (calls[j].seed = calls[i].seed
                 /\ calls[j].before.startprob = calls[i].before.startprob) =>
                    calls[j].result = calls[i].result
    /\ \A i \in NextCalls :
          /\ calls[i].result = peek_interaction(calls[i].before, calls[i].seed).result
          /\ Len(calls[i].after.state_history) = Len(calls[i].before.state_history) + 1
          /\ SubSeq(calls[i].after.state_history, 1, Len(calls[i].before.state_history))
                = calls[i].before.state_history
          /\ calls[i].after.state_history[Len(calls[i].after.state_history)][1] = current_time
          /\ calls[i].after.state_history[Len(calls[i].after.state_history)][2] \in {1, 2}

\* two peeks of a behaviour whose latent state a next_interaction has moved,
\* with a seed for which the moved and the initial state answer differently
C32_Witness ==
    /\ Cardinality(PeekCalls) = 2
    /\ calls[1].before.state_history # <<>>
    /\ calls[1].before.startprob # startprob_of(calls[1].before.class)
    /\ calls[1].result
          # peek_interaction(CapabilityBehaviour(calls[1].before.class), calls[1].seed).result

\* a next_interaction that moves the latent state to BadlyBehaved
C32_WitnessNext ==
    \E i \in NextCalls :
        /\ calls[i].after.startprob # calls[i].before.startprob
        /\ calls[i].after.state_history[Len(calls[i].after.state_history)][2] = 2

(***************************************************************************)
(* C33: when an artifact's parameters differ from those of the artifacts   *)
(* merged before it in a field other than seed, fn leaves with a           *)
(* ParametersDifferError whose message names the differing fields and      *)
(* dumps no combined artifact; files that differ in seed only are merged.  *)
(***************************************************************************)
\* the readable files of the group
Loaded(files) == SelectSeq(files, LAMBDA f : ~f.eof)

\* the fields other than seed in which a file differs from the first loaded
Differing(files) ==
    {k \in {ArgKeys[i] : i \in 1..Len(ArgKeys)} \ {"seed"} :
        \E i \in 1..Len(Loaded(files)) : Loaded(files)[i].args[k] # Loaded(files)[1].args[k]}

\* the fields in which the first file that differs does
FirstDiffering(files) ==
    LET l == Loaded(files)
        i == CHOOSE i \in 1..Len(l) :
                 /\ without_seed(l[i].args) # without_seed(l[1].args)
                 /\ \A j \in 1..(i - 1) : without_seed(l[j].args) = without_seed(l[1].args)
    IN  {k \in {ArgKeys[n] : n \in 1..Len(ArgKeys)} : without_seed(l[i].args)[k] # l[1].args[k]}

C33_MismatchAbortsWithParametersDifferError ==
    status # "merging" =>
        IF Differing(queue) # {}
        THEN /\ calls[1].exc = "ParametersDifferError"
             /\ calls[1].message = FirstDiffering(queue)
             /\ calls[1].written = <<>>
        ELSE /\ calls[1].exc = "none"
             /\ Len(calls[1].written) = 1
             /\ Len(calls[1].written[1].normed_utilities) = Len(Loaded(queue))

\* the part of C33 that the merge keeps: no combined artifact of files whose
\* parameters differ, and one of all the files that differ in seed only
C33_MismatchWritesNothing ==
    status # "merging" =>
        IF Differing(queue) # {}
        THEN calls[1].exc # "none" /\ calls[1].written = <<>>
        ELSE /\ calls[1].exc = "none"
             /\ Len(calls[1].written) = 1
             /\ Len(calls[1].written[1].normed_utilities) = Len(Loaded(queue))

C33_Witness ==
    /\ status = "ValueError"
    /\ Len(queue) = 3
    /\ Differing(queue) = {"max_crypto_buf"}
    /\ queue[1].args.seed # queue[2].args.seed
    /\ without_seed(queue[1].args) = without_seed(queue[2].args)

(***************************************************************************)
(* C34: an event that stays in the queue over a step keeps its event_time; *)
(* a recurring event (AgentCapabilityTask, AgentTrustDissemination) is in  *)
(* the queue at most once, and comes back with a later time only by the    *)
(* step that popped it; the queue is a heap after every step.              *)
(***************************************************************************)
\* heapq's invariant: heap[k] <= heap[2*k+1] and heap[k] <= heap[2*k+2]
HeapOrdered(heap) == \A i \in 2..Len(heap) : ~Lt(heap[i], heap[i \div 2])

Occurrences(heap, e) == Cardinality({i \in 1..Len(heap) : heap[i] = e})

Recurring == {"AgentCapabilityTask", "AgentTrustDissemination"}

\* two entries of the heap are the one recurring event object
SameEvent(a, b) ==
    a.type \in Recurring /\ a.type = b.type /\ a.agent = b.agent /\ a.capability = b.capability

OncePerObject(heap) ==
    \A i, j \in 1..Len(heap) : SameEvent(heap[i], heap[j]) => i = j

\* every entry but the popped one is in the queue after the step as it was before
KeptInQueue ==
    \A i \in 1..Len(queue) :
        Occurrences(queue', queue[i])
            >= Occurrences(queue, queue[i]) - One(queue[i] = Due)

\* the popped recurring event is the only one that comes back with another time
RequeuedLater ==
    \A i \in 1..Len(queue') :
        queue'[i].type \in Recurring /\ Occurrences(queue, queue'[i]) = 0 =>
            \/ popped'.type = "AgentInit" /\ queue'[i].agent = popped'.agent
            \/ SameEvent(queue'[i], popped') /\ queue'[i].event_time > popped'.event_time

Used(item) == item.eviction_data = <<current_time>>

\* the snapshot of the reputation item holds an entry for (agent, capability)
SnapshotHolds(item, agent, capability) ==
    \E j \in 1..Len(item.trust_items) :
        item.trust_items[j].agent = agent /\ item.trust_items[j].capability = capability

UsedAt(items, idx) == idx # 0 => Used(items[idx])

C35_SelectionUsesItemsOfPeer ==
    \A i \in 1..Len(calls) :
        calls[i].fn = "choose_agent_for_task" /\ calls[i].selected # 0 =>
            /\ UsedAt(buffers[Owner].crypto.items, find_crypto(buffers[Owner], calls[i].selected))
            /\ UsedAt(buffers[Owner].trust.items,
                      find_trust(buffers[Owner], calls[i].selected, calls[i].capability))
            /\ \A r \in 1..Len(buffers[Owner].reputation.items) :
                  SnapshotHolds(buffers[Owner].reputation.items[r],
                                calls[i].selected, calls[i].capability)
                      => Used(buffers[Owner].reputation.items[r])
            /\ UsedAt(buffers[Owner].stereotype.items,
                      find_stereotype(buffers[Owner], calls[i].selected, calls[i].capability))

\* what the selection does: the crypto, trust and stereotype items of the peer
\* are used, and the reputation store is left as it was
C35_SelectionUsesNoReputationItem ==
    \A i \in 1..Len(calls) :
        calls[i].fn = "choose_agent_for_task" /\ calls[i].selected # 0 =>
            /\ UsedAt(buffers[Owner].crypto.items, find_crypto(buffers[Owner], calls[i].selected))
            /\ UsedAt(buffers[Owner].trust.items,
                      find_trust(buffers[Owner], calls[i].selected, calls[i].capability))
            /\ UsedAt(buffers[Owner].stereotype.items,
                      find_stereotype(buffers[Owner], calls[i].selected, calls[i].capability))
            /\ buffers[Owner].reputation = calls[i].before.reputation

C35_Witness ==
    \E i \in 1..Len(calls) :
        /\ calls[i].fn = "choose_agent_for_task"
        /\ calls[i].selected # 0
        /\ find_trust(buffers[Owner], calls[i].selected, calls[i].capability) # 0
        /\ find_stereotype(buffers[Owner], calls[i].selected, calls[i].capability) # 0
        /\ \E r \in 1..Len(buffers[Owner].reputation.items) :
              SnapshotHolds(buffers[Owner].reputation.items[r],
                            calls[i].selected, calls[i].capability)

(***************************************************************************)
(* C36: an AgentTaskInteraction whose source has no TrustItem for (target, *)
(* capability), a full trust store and a strategy that chooses no victim   *)
(* leaves the trust store as it was and the run running.                   *)
(***************************************************************************)
\* update_trust_history is reached with a candidate the None strategy rejects
CandidateRejected ==
    /\ Executes("AgentTaskInteraction")
    /\ es = "None"
    /\ find_crypto(buffers[Due.agent], Due.other) # 0
    /\ find_crypto(buffers[Due.other], Due.agent) # 0
    /\ find_trust(buffers[Due.agent], Due.other, Due.capability) = 0
    /\ buffers[Due.agent].trust.length > 0
    /\ Len(buffers[Due.agent].trust.items) = buffers[Due.agent].trust.length

C36_RejectedCandidateIsDropped ==
    [][CandidateRejected =>
          /\ buffers'[Due.agent].trust = buffers[Due.agent].trust
          /\ status' = "running"]_vars

\* what the step does: the store is left as it was and the assert of
\* update_trust_history stops the run
C36_RejectedCandidateStopsRun ==
    [][CandidateRejected =>
          /\ buffers'[Due.agent].trust = buffers[Due.agent].trust
          /\ status' = "AssertionError"]_vars

C36_Witness ==
    /\ status = "AssertionError"
    /\ popped.type = "AgentTaskInteraction"
    /\ es = "None"
    /\ find_crypto(buffers[popped.agent], popped.other) # 0
    /\ find_trust(buffers[popped.agent], popped.other, popped.capability) = 0
    /\ Len(buffers[popped.agent].trust.items) = 1

(***************************************************************************)
(* C37: CuckooAgentChooseBehaviour picks among the eligible peers that are *)
(* encountered and not badlisted if there are any; otherwise among those   *)
(* neither badlisted nor encountered if there are any; it answers None     *)
(* only when every eligible peer is badlisted or none is eligible.         *)
(***************************************************************************)
\* the peers of the owner's crypto store
EligiblePeers == {buffers[Owner].crypto.items[i].agent : i \in 1..Len(buffers[Owner].crypto.items)}

BadlistedPeers == buffers[Owner].badlist[1]

EncounteredPeers == buffers[Owner].encountered[1]

FirstLevelPeers == (EligiblePeers \cap EncounteredPeers) \ BadlistedPeers

SecondLevelPeers == (EligiblePeers \ EncounteredPeers) \ BadlistedPeers

C37_CuckooThreeLevels ==
    \A i \in 1..Len(calls) :
        calls[i].fn = "Cuckoo.choose_agent_for_task" =>
            /\ calls[i].exc = "none"
            /\ IF FirstLevelPeers # {} THEN calls[i].selected \in FirstLevelPeers
               ELSE IF SecondLevelPeers # {} THEN calls[i].selected \in SecondLevelPeers
               ELSE calls[i].selected = 0

\* what the behaviour does: a peer of the first level, or None
C37_CuckooFirstLevelOrNone ==
    \A i \in 1..Len(calls) :
        calls[i].fn = "Cuckoo.choose_agent_for_task" =>
            /\ calls[i].exc = "none"
            /\ IF FirstLevelPeers # {} THEN calls[i].selected \in FirstLevelPeers
               ELSE calls[i].selected = 0

C37_Witness ==
    /\ Len(calls) = 1
    /\ FirstLevelPeers = {}
    /\ SecondLevelPeers # {}
    /\ EligiblePeers \cap BadlistedPeers # {}
    /\ calls[1].selected = 0

(***************************************************************************)
(* C38: under every strategy and every positive crypto capacity, when an   *)
(* AgentTaskInteraction runs, _ensure_crypto_exists of the source for the  *)
(* target answers True, whether the item is still in the store or was      *)
(* evicted since the task selected the target, so the assert passes.       *)
(***************************************************************************)
C38_OurCryptoIsFound ==
    /\ status # "AssertionError"
    /\ \A i \in 1..Len(calls) :
          calls[i].fn = "_ensure_crypto_exists" =>
              /\ calls[i].found
              /\ find_crypto(buffers[Owner], calls[i].target) # 0

\* the target was evicted between the selection and the interaction
C38_Witness ==
    \E i \in 1..Len(calls) :
        /\ calls[i].fn = "_ensure_crypto_exists"
        /\ calls[i].found
        /\ Len(calls[i].before.items) = calls[i].before.length
        /\ \A j \in 1..Len(calls[i].before.items) : calls[i].before.items[j].agent # calls[i].target

\* under the None strategy the target is still in the full store
C38_WitnessNone ==
    \E i \in 1..Len(calls) :
        /\ calls[i].fn = "_ensure_crypto_exists"
        /\ es = "None"
        /\ Len(calls[i].before.items) = calls[i].before.length
        /\ metrics.evicted_crypto = <<>>
        /\ calls[i].found

(***************************************************************************)
(* C39: while the run is running, the queue holds for an agent whose       *)
(* AgentInit has executed exactly one AgentTrustDissemination and exactly  *)
(* one AgentCapabilityTask per capability, and for an agent whose          *)
(* AgentInit is still queued none of them.                                 *)
(***************************************************************************)
\* the entries of the queue of this class for the agent (and capability)
QueuedFor(type, agent, capability) ==
    {i \in 1..Len(queue) :
        /\ queue[i].type = type
        /\ queue[i].agent = agent
        /\ queue[i].capability = capability}

InitQueued(agent) == QueuedFor("AgentInit", agent, 0) # {}

OnePerKey(kind, items) ==
    \A i, j \in 1..Len(items) : KnowKey(kind, items[i]) = KnowKey(kind, items[j]) => i = j

OneItemPerKey(bufs) ==
    \A agent \in Agents :
        \A kind \in {"crypto", "trust", "reputation", "stereotype", "cr"} :
            OnePerKey(kind, bufs[agent][kind].items)

\* the receivers that hold the sender's crypto and reputation items
Refreshing(sender) ==
    {agent \in Agents \ {sender} :
        /\ find_crypto(buffers[agent], sender) # 0
        /\ find_reputation(buffers[agent], sender) # 0}

Refreshed(agent, sender) ==
    /\ Len(buffers'[agent].reputation.items) = Len(buffers[agent].reputation.items)
    /\ find_reputation(buffers'[agent], sender) = find_reputation(buffers[agent], sender)
    /\ buffers'[agent].reputation.items[find_reputation(buffers[agent], sender)].trust_items
           = buffers[Due.agent].trust.items

C40_OneItemPerKey ==
    [][/\ OneItemPerKey(buffers')
       /\ Executes("AgentTrustDissemination") =>
              \A agent \in Refreshing(Due.agent) : Refreshed(agent, Due.agent)]_vars

\* a dissemination that refreshed a ReputationItem: none was added by the step,
\* and the snapshot holds what the sender has stored since the item was added
C40_Witness ==
    /\ popped.type = "AgentTrustDissemination"
    /\ status = "running"
    /\ \A i \in 1..Len(calls) : ~(calls[i].fn = "add" /\ calls[i].kind = "reputation")
    /\ \E agent \in Agents \ {popped.agent} :
          /\ find_reputation(buffers[agent], popped.agent) # 0
          /\ Len(buffers[agent].reputation.items[
                     find_reputation(buffers[agent], popped.agent)].trust_items) >= 1

====
